---- MODULE Spec2Model ----
(***************************************************************************)
(* A model of parts of PySys:                                              *)
(*   - the Windows process wrapper ProcessImpl                             *)
(*     (pysys/process/plat-win32/helper.py),                               *)
(*   - TestOutputArchiveWriter and CollectTestOutputWriter                 *)
(*     (pysys/writer/testoutput.py),                                       *)
(*   - JSONResultsWriter and XMLResultsWriter (pysys/writer/outcomes.py),  *)
(*   - XMLProjectParser and Project (pysys/xml/project.py).                *)
(* SpecProcess runs the process wrapper alone.  SpecWriters runs one test   *)
(* run of a project that configures one of the first two writers.  The     *)
(* further components have a specification each.                           *)
(***************************************************************************)
EXTENDS Integers, Sequences, FiniteSets, TLC

VARIABLES
    \* ---- ProcessImpl: the instance's fields
    pc,                 \* per thread: the statement it is about to execute
    lock,               \* holder of self.__lock, or "free"
    processLock,        \* holder of the global pysys.process_lock, or "free"
    hProcess,           \* self.__hProcess: "None" | "open"
    hThread,            \* self.__hThread:  "None" | "open"
    stdin,              \* self.__stdin:    "None" | "open" | "closed"
    pid,                \* self.pid:        "None" | "pid"
    exitStatus,         \* self.exitStatus: "None" | "code0" | "code1"
    job,                \* self.__job:      "None" | "job"
    startState,         \* "new" | "started" | "ValueError" | "ProcessError"
    disableKillingChildProcesses,
    suspendedStart,     \* the command ends with .bat/.cmd: CREATE_SUSPENDED
    loc,                \* per thread: the locals of the wait poll
    stopVia,            \* the last stop(): how it terminated, and the process state it found
    \* ---- the operating system
    osProc,             \* "none" | "suspended" | "running" | "exited"
    osExitCode,         \* "None" | "code0" | "code1"
    procInJob,          \* the process is a member of the job object
    kidsInJob,          \* running descendants that are members of the job
    kidsOut,            \* running descendants outside the job
    spawned,            \* descendants spawned so far
    \* ---- the owner (ProcessUser) of the process
    hasOwner,
    isInterruptTerminationInProgress,
    isCleanupInProgress,
    \* ---- TestOutputArchiveWriter
    aCfg,               \* the writer's configured properties
    aPhase,             \* "none" | "new" | "UserError" | "running" | "cleanup" |
                        \* "raised" | "done"
    aInclude,           \* self.includeNonFailureOutcomes after setup
    queuedInstructions, \* self.queuedInstructions
    todo,               \* what is left of cleanup's loop over sorted(queuedInstructions)
    skippedTests,       \* self.skippedTests
    archivesCreated,    \* self.archivesCreated
    totalBytesRemaining,\* self.__totalBytesRemaining
    destFiles,          \* the archives in destDir: <<id, bytes>> in order of creation
    skippedArtifacts,   \* skipped_artifacts.txt: whether written, and its lines
    archLog,            \* one entry per call of _archiveTestOutputDir, in order
    lastArchive,        \* the file loop of the last call that began an archive
    destDirFound,       \* destDir as the writer found it: an earlier run's files
    destDirOld,         \* what destDir still holds of them
    \* ---- JSONResultsWriter
    jRaw,               \* the configured includeNonFailureOutcomes
    jPhase,             \* "none" | "new" | "UserError" | "open" | "closed" |
                        \* "JSONDecodeError"
    jInclude,           \* self.includeNonFailureOutcomes after setup
    fp,                 \* the tokens written to the log file
    resultsWritten,     \* self.resultsWritten
    jCalls,             \* the results processResult was called with, in order
    \* ---- the runner
    result,             \* the result it handed to a writer's processResult last
    \* ---- CollectTestOutputWriter
    cPhase,             \* "none" | "new" | "running"
    outputPattern,      \* which of @TESTID@ and @FILENAME@ the pattern holds
    cDestDir,           \* the files in destDir: their path and where they came from
    collectedFileCount, \* self.collectedFileCount
    cCollected,         \* the calls of collectPath that returned, in order
    \* ---- XMLProjectParser and Project
    xPhase,             \* "none" | "parsing" | "UserError" | "loaded"
    properties,         \* parser.properties, then project.properties
    propertiesReadOnly, \* project.properties is what makeReadOnlyDict returned
    attributes,         \* the instance attributes of the Project
    frozen,             \* self.__frozen
    elementsRead,       \* the <property> elements getProperties has read
    xLast,              \* the last operation on the parser or the project
    \* ---- Project.findAndLoadProject
    fPhase,             \* "none" | "new" | "walking" | "loaded" | "loadFailed" |
                        \* "exit1"
    startdir,           \* the argument: a path, empty for None
    envProjectFile,     \* PYSYS_PROJECTFILE: "None" or a file name
    permitNoProjectFile,\* PYSYS_PERMIT_NO_PROJECTFILE is 'true'
    projectDirs,        \* the directories that hold a default project file
    search,             \* the local variable search
    drive,              \* the local variable drive
    projectFile,        \* the local variable projectFile: "None" or a file name
    listed,             \* the directories os.listdir was called with, in order
    \* ---- startBackgroundProcess, statement by statement
    sPc,                \* "none" | the statement it is about to execute |
                        \* "returned" | "raised"
    handles,            \* per handle the method opens: whether it was opened, is
                        \* open, and how often CloseHandle was called on it
    commandLineLength,  \* len(command_line)
    \* ---- XMLResultsWriter
    xmlPhase,           \* "none" | "new" | "open" | "closed": self.fp is a file
                        \* only in "open"
    document,           \* self.document: status, completed and the results nodes
    numResults,         \* self.numResults
    numTests,           \* self.numTests
    cycle,              \* self.cycle
    logFile,            \* the characters of the log file
    processed,          \* how many times processResult was called
    lengths             \* the length of each serialization written, in order

procVars == <<pc, lock, processLock, hProcess, hThread, stdin, pid, exitStatus, job,
              startState, disableKillingChildProcesses, suspendedStart, loc, stopVia,
              osProc, osExitCode, procInJob, kidsInJob, kidsOut, spawned,
              hasOwner, isInterruptTerminationInProgress, isCleanupInProgress>>

archVars == <<aCfg, aPhase, aInclude, queuedInstructions, todo, skippedTests,
              archivesCreated, totalBytesRemaining, destFiles, skippedArtifacts, archLog,
              lastArchive, destDirFound, destDirOld>>

\* destDir as an earlier run left it.
dirVars == <<destDirFound, destDirOld>>

jsonVars == <<jRaw, jPhase, jInclude, fp, resultsWritten, jCalls>>

writerVars == <<archVars, jsonVars, result>>

collectVars == <<cPhase, outputPattern, cDestDir, collectedFileCount, cCollected>>

projectVars == <<xPhase, properties, propertiesReadOnly, attributes, frozen,
                 elementsRead, xLast>>

findVars == <<fPhase, startdir, envProjectFile, permitNoProjectFile, projectDirs,
              search, drive, projectFile, listed>>

startVars == <<sPc, handles, commandLineLength>>

xmlVars == <<xmlPhase, document, numResults, numTests, cycle, logFile, processed,
             lengths>>

\* The variables of the other components.
restVars == <<collectVars, projectVars, findVars, startVars, xmlVars>>

vars == <<procVars, writerVars, restVars>>

(***************************************************************************)
(* Bounds and program constants                                            *)
(***************************************************************************)
MaxChildren == 2
MaxTests == 3
MaxCollected == 4
\* How many results an XMLResultsWriter is given.
MaxResults == 10

pollTimeoutMillis == 1000

\* The command line length from which startBackgroundProcess raises ValueError.
MaxCommandLine == 32768

\* The thread that starts (and usually stops) the process, and the one
\* background thread that monitors it.
Threads == {"main", "bg"}

NoLocals == [h |-> "None", withEvent |-> FALSE, wait |-> "none", blockedMs |-> 0,
             slept |-> FALSE, result |-> "none", intrAtStart |-> FALSE,
             cleanupAtStart |-> FALSE]

(***************************************************************************)
(* ProcessImpl.__init__                                                    *)
(***************************************************************************)
InitProcess ==
    /\ pc = [t \in Threads |-> "idle"]
    /\ lock = "free"
    /\ processLock = "free"
    /\ hProcess = "None"
    /\ hThread = "None"
    /\ stdin = "None"
    /\ pid = "None"
    /\ exitStatus = "None"
    /\ job = "None"
    /\ startState = "new"
    /\ disableKillingChildProcesses \in BOOLEAN
    /\ suspendedStart \in BOOLEAN
    /\ loc = [t \in Threads |-> NoLocals]
    /\ stopVia = [via |-> "none", found |-> "none"]
    /\ osProc = "none"
    /\ osExitCode = "None"
    /\ procInJob = FALSE
    /\ kidsInJob = 0
    /\ kidsOut = 0
    /\ spawned = 0
    /\ hasOwner \in BOOLEAN
    /\ isInterruptTerminationInProgress = FALSE
    /\ isCleanupInProgress = FALSE

fieldVars == <<hProcess, hThread, stdin, pid, exitStatus, job>>
cfgVars == <<disableKillingChildProcesses, suspendedStart, hasOwner>>
osVars == <<osProc, osExitCode, procInJob, kidsInJob, kidsOut, spawned>>
ownerVars == <<isInterruptTerminationInProgress, isCleanupInProgress>>

Goto(t, label) == pc' = [pc EXCEPT ![t] = label]

(***************************************************************************)
(* The operating system: the process and its descendants                   *)
(***************************************************************************)
\* A running process (or a running descendant) spawns a child.  The child
\* belongs to the job exactly when its parent does at that moment.
OsSpawnChild ==
    /\ spawned < MaxChildren
    /\ \/ /\ osProc = "running"
          /\ IF procInJob
             THEN kidsInJob' = kidsInJob + 1 /\ UNCHANGED kidsOut
             ELSE kidsOut' = kidsOut + 1 /\ UNCHANGED kidsInJob
       \/ /\ kidsInJob > 0
          /\ kidsInJob' = kidsInJob + 1 /\ UNCHANGED kidsOut
       \/ /\ kidsOut > 0
          /\ kidsOut' = kidsOut + 1 /\ UNCHANGED kidsInJob
    /\ spawned' = spawned + 1
    /\ UNCHANGED <<pc, lock, processLock, fieldVars, startState, cfgVars, loc, stopVia,
                   osProc, osExitCode, procInJob, ownerVars>>

\* The process ends by itself.
OsExit ==
    /\ osProc = "running"
    /\ osProc' = "exited"
    /\ osExitCode' \in {"code0", "code1"}
    /\ UNCHANGED <<pc, lock, processLock, fieldVars, startState, cfgVars, loc, stopVia,
                   procInJob, kidsInJob, kidsOut, spawned, ownerVars>>

(***************************************************************************)
(* The owner: Ctrl+C sets the interrupt flag and its event; cleanup begins *)
(***************************************************************************)
OwnerInterrupt ==
    /\ hasOwner
    /\ ~isInterruptTerminationInProgress
    /\ isInterruptTerminationInProgress' = TRUE
    /\ UNCHANGED <<pc, lock, processLock, fieldVars, startState, cfgVars, loc, stopVia,
                   osVars, isCleanupInProgress>>

OwnerCleanup ==
    /\ hasOwner
    /\ ~isCleanupInProgress
    /\ isCleanupInProgress' = TRUE
    /\ UNCHANGED <<pc, lock, processLock, fieldVars, startState, cfgVars, loc, stopVia,
                   osVars, isInterruptTerminationInProgress>>

(***************************************************************************)
(* ProcessImpl.startBackgroundProcess, run once by the starting thread     *)
(***************************************************************************)
\* with process_lock: the pipe and the stdout/stderr files are created and
\* the command line is built; 32768 or more characters raise ValueError.
StartBegin(t) ==
    /\ t = "main"
    /\ pc[t] = "idle"
    /\ startState = "new"
    /\ processLock = "free"
    /\ processLock' = t
    /\ \E tooLong \in BOOLEAN :
          IF tooLong
          THEN startState' = "ValueError" /\ Goto(t, "st_finally")
          ELSE UNCHANGED startState /\ Goto(t, "st_job")
    /\ UNCHANGED <<lock, fieldVars, cfgVars, loc, stopVia, osVars, ownerVars>>

\* self.__job = self._createParentJob()
StartCreateJob(t) ==
    /\ pc[t] = "st_job"
    /\ job' = "job"
    /\ Goto(t, "st_create")
    /\ UNCHANGED <<lock, processLock, hProcess, hThread, stdin, pid, exitStatus,
                   startState, cfgVars, loc, stopVia, osVars, ownerVars>>

\* win32process.CreateProcess: sets the handles and the pid, or raises
\* ProcessError and sets nothing.
StartCreateProcess(t) ==
    /\ pc[t] = "st_create"
    /\ \/ /\ hProcess' = "open"
          /\ hThread' = "open"
          /\ pid' = "pid"
          /\ osProc' = IF suspendedStart THEN "suspended" ELSE "running"
          /\ Goto(t, "st_assign")
          /\ UNCHANGED startState
       \/ /\ startState' = "ProcessError"
          /\ Goto(t, "st_finally")
          /\ UNCHANGED <<hProcess, hThread, pid, osProc>>
    /\ UNCHANGED <<lock, processLock, stdin, exitStatus, job, cfgVars, loc, stopVia,
                   osExitCode, procInJob, kidsInJob, kidsOut, spawned, ownerVars>>

\* win32job.AssignProcessToJobObject, unless killing of child processes is
\* disabled.  It fails when the process has already ended and may fail for
\* a process that is still active (a warning is logged); self.__job is then
\* None, which makes stop() use TerminateProcess.
StartAssignJob(t) ==
    /\ pc[t] = "st_assign"
    /\ IF disableKillingChildProcesses
       THEN job' = "None" /\ UNCHANGED procInJob
       ELSE \/ /\ osProc # "exited"
               /\ procInJob' = TRUE
               /\ UNCHANGED job
            \/ /\ job' = "None"
               /\ UNCHANGED procInJob
    /\ Goto(t, "st_resume")
    /\ UNCHANGED <<lock, processLock, hProcess, hThread, stdin, pid, exitStatus,
                   startState, cfgVars, loc, stopVia, osProc, osExitCode, kidsInJob,
                   kidsOut, spawned, ownerVars>>

\* win32process.ResumeThread for a process created suspended
StartResume(t) ==
    /\ pc[t] = "st_resume"
    /\ osProc' = IF osProc = "suspended" THEN "running" ELSE osProc
    /\ Goto(t, "st_finally")
    /\ UNCHANGED <<lock, processLock, fieldVars, startState, cfgVars, loc, stopVia,
                   osExitCode, procInJob, kidsInJob, kidsOut, spawned, ownerVars>>

\* finally: the parent's copies of the child's handles are closed; an
\* exception then leaves the method (and the with block).
StartFinally(t) ==
    /\ pc[t] = "st_finally"
    /\ IF startState = "new"
       THEN Goto(t, "st_stdin") /\ UNCHANGED processLock
       ELSE Goto(t, "idle") /\ processLock' = "free"
    /\ UNCHANGED <<lock, fieldVars, startState, cfgVars, loc, stopVia, osVars, ownerVars>>

\* self.__stdin = hStdin, and the with block ends
StartSetStdin(t) ==
    /\ pc[t] = "st_stdin"
    /\ stdin' = "open"
    /\ startState' = "started"
    /\ processLock' = "free"
    /\ Goto(t, "idle")
    /\ UNCHANGED <<lock, hProcess, hThread, pid, exitStatus, job, cfgVars, loc, stopVia,
                   osVars, ownerVars>>

(***************************************************************************)
(* ProcessImpl.setExitStatus                                               *)
(***************************************************************************)
\* setExitStatus entered without taking self.__lock
SetExitStatusCall_NoLock(t) ==
    /\ pc[t] = "idle"
    /\ startState = "started"
    /\ Goto(t, "se_locked")
    /\ UNCHANGED <<lock, processLock, fieldVars, startState, cfgVars, loc, stopVia, osVars,
                   ownerVars>>

\* with self.__lock:
SetExitStatusCall(t) ==
    /\ pc[t] = "idle"
    /\ startState = "started"
    /\ lock = "free"
    /\ lock' = t
    /\ Goto(t, "se_locked")
    /\ UNCHANGED <<processLock, fieldVars, startState, cfgVars, loc, stopVia, osVars,
                   ownerVars>>

\* The body: a status already recorded is returned; otherwise
\* GetExitCodeProcess is asked, and for a process that has ended the three
\* handles are closed (a failure to close is logged) and set to None and the
\* status is recorded.  The lock is released on return.
SetExitStatusBody(t) ==
    /\ pc[t] = "se_locked"
    /\ IF exitStatus = "None" /\ osProc = "exited"
       THEN /\ hProcess' = "None"
            /\ hThread' = "None"
            /\ stdin' = "None"
            /\ exitStatus' = osExitCode
       ELSE UNCHANGED <<hProcess, hThread, stdin, exitStatus>>
    /\ lock' = "free"
    /\ Goto(t, "idle")
    /\ UNCHANGED <<processLock, pid, job, startState, cfgVars, loc, stopVia, osVars,
                   ownerVars>>

(***************************************************************************)
(* ProcessImpl.stop                                                        *)
(***************************************************************************)
StopCall(t) ==
    /\ pc[t] = "idle"
    /\ startState = "started"
    /\ lock = "free"
    /\ lock' = t
    /\ Goto(t, "stop_locked")
    /\ UNCHANGED <<processLock, fieldVars, startState, cfgVars, loc, stopVia, osVars,
                   ownerVars>>

\* stop() that always uses TerminateProcess
StopUsesJob_Never == FALSE

\* if self.__job: TerminateJobObject, else: TerminateProcess
StopUsesJob == job # "None"

\* The body: nothing is done for a recorded exit status.  TerminateJobObject
\* ends every member of the job; TerminateProcess ends the process alone and
\* fails for a process that has already ended, and the handler of that
\* failure reads self.hProcess, an attribute the class never sets, so stop()
\* raises ProcessError.  After the locked part stop() calls wait(), a series
\* of setExitStatus and poll calls the thread makes from "idle".
StopBody(t) ==
    /\ pc[t] = "stop_locked"
    /\ IF exitStatus # "None"
       THEN UNCHANGED <<stopVia, osProc, osExitCode, kidsInJob>>
       ELSE IF StopUsesJob
            THEN /\ stopVia' = [via |-> "job", found |-> osProc]
                 /\ osProc' = IF procInJob THEN "exited" ELSE osProc
                 /\ osExitCode' = IF procInJob /\ osProc = "running"
                                  THEN "code0" ELSE osExitCode
                 /\ kidsInJob' = 0
            ELSE IF osProc = "running"
                 THEN /\ stopVia' = [via |-> "process", found |-> osProc]
                      /\ osProc' = "exited"
                      /\ osExitCode' = "code0"
                      /\ UNCHANGED kidsInJob
                 ELSE /\ stopVia' = [via |-> "ProcessError", found |-> osProc]
                      /\ UNCHANGED <<osProc, osExitCode, kidsInJob>>
    /\ lock' = "free"
    /\ Goto(t, "idle")
    /\ UNCHANGED <<processLock, fieldVars, startState, cfgVars, loc, procInJob, kidsOut,
                   spawned, ownerVars>>

(***************************************************************************)
(* ProcessImpl._writeStdin                                                 *)
(***************************************************************************)
WriteStdinCall(t) ==
    /\ pc[t] = "idle"
    /\ startState = "started"
    /\ lock = "free"
    /\ lock' = t
    /\ Goto(t, "ws_locked")
    /\ UNCHANGED <<processLock, fieldVars, startState, cfgVars, loc, stopVia, osVars,
                   ownerVars>>

\* The body: nothing without a stdin handle; data None closes the handle
\* (the field keeps the closed handle), other data is written.  Either call
\* raises on a handle that is already closed; the lock is released.
WriteStdinBody(t) ==
    /\ pc[t] = "ws_locked"
    /\ \E data \in {"None", "bytes"} :
          IF stdin = "open" /\ data = "None"
          THEN stdin' = "closed"
          ELSE UNCHANGED stdin
    /\ lock' = "free"
    /\ Goto(t, "idle")
    /\ UNCHANGED <<processLock, hProcess, hThread, pid, exitStatus, job, startState,
                   cfgVars, loc, stopVia, osVars, ownerVars>>

(***************************************************************************)
(* ProcessImpl._pollWaitUnlessProcessTerminated                            *)
(***************************************************************************)
PollCall(t) ==
    /\ pc[t] = "idle"
    /\ startState = "started"
    /\ Goto(t, "pw_read")
    /\ loc' = [loc EXCEPT ![t] = [NoLocals EXCEPT
                  !.intrAtStart = isInterruptTerminationInProgress,
                  !.cleanupAtStart = isCleanupInProgress]]
    /\ UNCHANGED <<lock, processLock, fieldVars, startState, cfgVars, stopVia, osVars,
                   ownerVars>>

\* __hProcess = self.__hProcess, read without the lock.  With a handle the
\* wait objects are the handle and, for an owner whose cleanup is not in
\* progress, the owner's interrupt event.
PollRead(t) ==
    /\ pc[t] = "pw_read"
    /\ loc' = [loc EXCEPT ![t].h = hProcess,
                          ![t].withEvent = hProcess # "None" /\ hasOwner
                                           /\ ~isCleanupInProgress]
    /\ Goto(t, IF hProcess # "None" THEN "pw_wait" ELSE "pw_sleep")
    /\ UNCHANGED <<lock, processLock, fieldVars, startState, cfgVars, stopVia, osVars,
                   ownerVars>>

\* What WaitForMultipleObjects(waitobjects, False, pollTimeoutMillis) can
\* return.  A handle that setExitStatus has closed in the meantime makes the
\* wait undefined: it may fail, report the handle or time out.  Otherwise
\* the lowest signalled object is reported, and the wait times out when
\* none is signalled.
WaitOutcomes(withEvent) ==
    IF hProcess = "None" THEN {"failed", "object0", "timeout"}
    ELSE IF osProc = "exited" THEN {"object0"}
    ELSE IF withEvent /\ isInterruptTerminationInProgress THEN {"event"}
    ELSE {"timeout"}

\* How long the call has blocked: the whole timeout when it timed out.
BlockedMs(outcome) == IF outcome = "timeout" THEN pollTimeoutMillis ELSE 0

\* a poll that returns after a failed wait without the fallback sleep
PollAfterWait_NoFallback(outcome) == "pw_check"

\* if WaitForMultipleObjects(...) != WAIT_FAILED: ... return
\* self._pollWait()
PollAfterWait(outcome) == IF outcome # "failed" THEN "pw_check" ELSE "pw_sleep"

PollWait(t) ==
    /\ pc[t] = "pw_wait"
    /\ \E outcome \in WaitOutcomes(loc[t].withEvent) :
          /\ loc' = [loc EXCEPT ![t].wait = outcome, ![t].blockedMs = BlockedMs(outcome)]
          /\ Goto(t, PollAfterWait(outcome))
    /\ UNCHANGED <<lock, processLock, fieldVars, startState, cfgVars, stopVia, osVars,
                   ownerVars>>

\* a check that forgets the owner's cleanup
PollRaises_IgnoresCleanup == hasOwner /\ isInterruptTerminationInProgress

\* if owner and owner.isInterruptTerminationInProgress is True
\*    and owner.isCleanupInProgress is False: raise KeyboardInterrupt()
PollRaises == hasOwner /\ isInterruptTerminationInProgress /\ ~isCleanupInProgress

PollCheck(t) ==
    /\ pc[t] = "pw_check"
    /\ loc' = [loc EXCEPT ![t].result = IF PollRaises THEN "KeyboardInterrupt"
                                        ELSE "return"]
    /\ Goto(t, "pw_exit")
    /\ UNCHANGED <<lock, processLock, fieldVars, startState, cfgVars, stopVia, osVars,
                   ownerVars>>

\* self._pollWait(): the fallback sleep
PollSleep(t) ==
    /\ pc[t] = "pw_sleep"
    /\ loc' = [loc EXCEPT ![t].slept = TRUE, ![t].result = "return"]
    /\ Goto(t, "pw_exit")
    /\ UNCHANGED <<lock, processLock, fieldVars, startState, cfgVars, stopVia, osVars,
                   ownerVars>>

\* The call returns or raises to its caller.
PollExit(t) ==
    /\ pc[t] = "pw_exit"
    /\ loc' = [loc EXCEPT ![t] = NoLocals]
    /\ Goto(t, "idle")
    /\ UNCHANGED <<lock, processLock, fieldVars, startState, cfgVars, stopVia, osVars,
                   ownerVars>>

\* A step of the process wrapper, its threads, the operating system or the
\* owner; the writers are not involved.
NextProcess ==
    \/ OsSpawnChild /\ UNCHANGED <<writerVars, restVars>>
    \/ OsExit /\ UNCHANGED <<writerVars, restVars>>
    \/ OwnerInterrupt /\ UNCHANGED <<writerVars, restVars>>
    \/ OwnerCleanup /\ UNCHANGED <<writerVars, restVars>>
    \/ \E t \in Threads : StartBegin(t) /\ UNCHANGED <<writerVars, restVars>>
    \/ \E t \in Threads : StartCreateJob(t) /\ UNCHANGED <<writerVars, restVars>>
    \/ \E t \in Threads : StartCreateProcess(t) /\ UNCHANGED <<writerVars, restVars>>
    \/ \E t \in Threads : StartAssignJob(t) /\ UNCHANGED <<writerVars, restVars>>
    \/ \E t \in Threads : StartResume(t) /\ UNCHANGED <<writerVars, restVars>>
    \/ \E t \in Threads : StartFinally(t) /\ UNCHANGED <<writerVars, restVars>>
    \/ \E t \in Threads : StartSetStdin(t) /\ UNCHANGED <<writerVars, restVars>>
    \/ \E t \in Threads : SetExitStatusCall(t) /\ UNCHANGED <<writerVars, restVars>>
    \/ \E t \in Threads : SetExitStatusBody(t) /\ UNCHANGED <<writerVars, restVars>>
    \/ \E t \in Threads : StopCall(t) /\ UNCHANGED <<writerVars, restVars>>
    \/ \E t \in Threads : StopBody(t) /\ UNCHANGED <<writerVars, restVars>>
    \/ \E t \in Threads : WriteStdinCall(t) /\ UNCHANGED <<writerVars, restVars>>
    \/ \E t \in Threads : WriteStdinBody(t) /\ UNCHANGED <<writerVars, restVars>>
    \/ \E t \in Threads : PollCall(t) /\ UNCHANGED <<writerVars, restVars>>
    \/ \E t \in Threads : PollRead(t) /\ UNCHANGED <<writerVars, restVars>>
    \/ \E t \in Threads : PollWait(t) /\ UNCHANGED <<writerVars, restVars>>
    \/ \E t \in Threads : PollCheck(t) /\ UNCHANGED <<writerVars, restVars>>
    \/ \E t \in Threads : PollSleep(t) /\ UNCHANGED <<writerVars, restVars>>
    \/ \E t \in Threads : PollExit(t) /\ UNCHANGED <<writerVars, restVars>>

\* The process wrapper before start(), with the given options.
NewProcess(disable, suspended, owner) ==
    /\ InitProcess
    /\ disableKillingChildProcesses = disable
    /\ suspendedStart = suspended
    /\ hasOwner = owner


(***************************************************************************)
(* Properties of ProcessImpl                                               *)
(***************************************************************************)
\* The statements that read or write pid, exitStatus or a handle field.
LockedBodies == {"se_locked", "stop_locked", "ws_locked"}
StartAccesses == {"st_create", "st_assign", "st_resume", "st_stdin"}
AccessesFields(t) == pc[t] \in LockedBodies \cup StartAccesses \cup {"pw_read"}

\* C1 as stated: every read or write of pid, exitStatus and the handle fields
\* (in startBackgroundProcess, setExitStatus, stop, _writeStdin and the wait
\* poll) is made by a thread that holds the instance's lock.
C1_EveryAccessHoldsInstanceLock ==
    \A t \in Threads : AccessesFields(t) => lock = t

\* C1 amended: the bodies of setExitStatus, stop and _writeStdin run holding
\* the instance's lock, so no two of them overlap; startBackgroundProcess
\* accesses the fields holding the global process_lock and not the
\* instance's lock; the wait poll reads the process handle holding no lock.
C1_LockedMethodsHoldInstanceLock ==
    /\ \A t \in Threads :
          /\ pc[t] \in LockedBodies => lock = t
          /\ pc[t] \in StartAccesses => processLock = t /\ lock # t
          /\ pc[t] = "pw_read" => lock # t /\ processLock # t
    /\ \A t, u \in Threads :
          pc[t] \in LockedBodies /\ pc[u] \in LockedBodies => t = u

\* setExitStatus is about to close and clear the handles under the lock
\* while the other thread is about to read the process handle in the poll.
C1_Witness ==
    \E t, u \in Threads :
        /\ t # u
        /\ pc[t] = "se_locked" /\ exitStatus = "None" /\ osProc = "exited"
        /\ pc[u] = "pw_read"

\* C2 as stated: stop() on a started process that has not yet exited
\* terminates it and all its descendants through the job object, leaving no
\* descendant running.
C2_StopTerminatesWholeTree ==
    stopVia.found = "running" =>
        /\ stopVia.via = "job"
        /\ osProc = "exited"
        /\ kidsInJob = 0
        /\ kidsOut = 0

\* C2 amended: stop() on a started process that has not yet exited always
\* terminates the process itself; when the process was assigned to its job
\* at start it does so with TerminateJobObject and no member of the job is
\* left running.  Descendants outside the job (spawned before the
\* assignment, or all of them when no job is in use) are not terminated.
C2_StopTerminatesJobMembers ==
    stopVia.found = "running" =>
        /\ osProc = "exited"
        /\ stopVia.via = (IF job # "None" THEN "job" ELSE "process")
        /\ job # "None" => procInJob /\ kidsInJob = 0

\* stop() has terminated a job whose process had spawned descendants, all
\* of them members of the job.
C2_Witness ==
    /\ stopVia = [via |-> "job", found |-> "running"]
    /\ spawned > 0
    /\ kidsInJob = 0
    /\ kidsOut = 0

\* C3: a poll that began with the owner's interrupt termination in progress
\* and ends while the process is still running and the owner's cleanup is
\* not in progress ends by raising KeyboardInterrupt (after its one bounded
\* wait); a poll that began with the owner's cleanup in progress never
\* raises KeyboardInterrupt.
C3_InterruptAbortsWaitUnlessCleanup ==
    \A t \in Threads :
        pc[t] = "pw_exit" =>
            /\ (hasOwner /\ loc[t].intrAtStart /\ ~isCleanupInProgress
                    /\ osProc = "running")
                  => loc[t].result = "KeyboardInterrupt"
            /\ loc[t].cleanupAtStart => loc[t].result = "return"

\* A poll of a running process was woken by the interrupt event and raised.
C3_Witness ==
    \E t \in Threads :
        /\ pc[t] = "pw_exit"
        /\ osProc = "running"
        /\ loc[t].intrAtStart
        /\ loc[t].wait = "event"
        /\ loc[t].result = "KeyboardInterrupt"

\* C4: every poll either made the OS wait, which did not fail and blocked
\* for at most pollTimeoutMillis (less only when the process handle or the
\* interrupt event was signalled), or - with no process handle or a failed
\* wait - slept in _pollWait; a poll of a process that is still running with
\* no interrupt in progress blocked for the whole timeout or slept.
C4_PollAlwaysBlocks ==
    \A t \in Threads :
        pc[t] = "pw_exit" =>
            /\ \/ /\ loc[t].wait \in {"object0", "event", "timeout"}
                  /\ ~loc[t].slept
                  /\ loc[t].blockedMs <= pollTimeoutMillis
                  /\ loc[t].blockedMs < pollTimeoutMillis =>
                        \/ loc[t].wait = "object0" /\ osProc = "exited"
                        \/ loc[t].wait = "event" /\ isInterruptTerminationInProgress
               \/ /\ loc[t].wait \in {"none", "failed"}
                  /\ loc[t].wait = "none" <=> loc[t].h = "None"
                  /\ loc[t].slept
            /\ (osProc = "running" /\ ~isInterruptTerminationInProgress)
                  => loc[t].blockedMs = pollTimeoutMillis \/ loc[t].slept

\* A poll whose wait failed (the handle was closed under it) fell back to
\* the sleep.
C4_Witness ==
    \E t \in Threads :
        /\ pc[t] = "pw_exit"
        /\ loc[t].h = "open"
        /\ loc[t].wait = "failed"
        /\ loc[t].slept

(***************************************************************************)
(* Test outcomes (pysys.constants.OUTCOMES) and includeNonFailureOutcomes  *)
(***************************************************************************)
\* Display names, in the order of OUTCOMES; FAILED is the failure outcome.
OutcomeSeq == <<"FAILED", "NOT VERIFIED", "REQUIRES INSPECTION", "PASSED">>
Outcomes == {OutcomeSeq[i] : i \in DOMAIN OutcomeSeq}
IsFailure(o) == o = "FAILED"

\* A piece of text between commas: its letters (written here in upper
\* case), whether it is written in lower case, and whether white space
\* surrounds it.
Piece(text, lower, padded) == [text |-> text, lower |-> lower, padded |-> padded]
\* str(outcome)
Str(o) == Piece(o, FALSE, FALSE)
\* o.strip(): white space alone strips to the empty string
Strip(p) == [p EXCEPT !.padded = FALSE]
\* o.upper()
Upper(p) == [p EXCEPT !.lower = FALSE]
\* the setting '*'
Star == <<Piece("*", FALSE, FALSE)>>

\* [str(o) for o in OUTCOMES] if self.includeNonFailureOutcomes=='*'
\* else [o.strip().upper() for o in ....split(',') if o.strip()];
\* an entry that is no outcome's display name raises UserError.
ParseIncludeNonFailureOutcomes(raw) ==
    LET kept == SelectSeq(raw, LAMBDA p : Strip(p).text # "")
        list == IF raw = Star
                THEN [i \in DOMAIN OutcomeSeq |-> Str(OutcomeSeq[i])]
                ELSE [i \in DOMAIN kept |-> Upper(Strip(kept[i]))]
    IN  [list |-> list,
         ok |-> \A i \in DOMAIN list : \E o \in Outcomes : list[i] = Str(o)]

\* outcome.isFailure() or str(outcome) in self.includeNonFailureOutcomes
ShouldArchive_FailuresOnly(o, list) == IsFailure(o)
ShouldArchive(o, list) ==
    IsFailure(o) \/ \E i \in DOMAIN list : list[i] = Str(o)

(***************************************************************************)
(* TestOutputArchiveWriter: the files of a test's output directory         *)
(***************************************************************************)
\* The budget below which no file and no archive is begun.
MinBytes == 500

\* File names in alphabetical order.
NameOrder == <<"busy.lock", "core.bin", "data.csv", "empty.out", "gone.txt",
               "huge.dat", "note.txt", "run.log", "skip.tmp">>
Rank(name) == CHOOSE i \in DOMAIN NameOrder : NameOrder[i] = name

\* size: os.path.getsize; csize: the size DEFLATE compresses it to, which
\* exceeds size for data that does not compress; excluded: rejected by
\* fileExcludesRegex or fileIncludesRegex; locked: adding it to an archive
\* raises; vanished: os.path.getsize raises (the file was deleted).
File(name, size, csize) ==
    [name |-> name, size |-> size, csize |-> csize, excluded |-> FALSE,
     locked |-> FALSE, vanished |-> FALSE]
RunLog == File("run.log", 300, 100)
CoreBin == File("core.bin", 700, 705)
DataCsv == File("data.csv", 3000, 400)
HugeDat == File("huge.dat", 3000, 400)
NoteTxt == File("note.txt", 300, 100)
EmptyOut == File("empty.out", 0, 0)
SkipTmp == [File("skip.tmp", 300, 100) EXCEPT !.excluded = TRUE]
BusyLock == [File("busy.lock", 300, 100) EXCEPT !.locked = TRUE]
GoneTxt == [File("gone.txt", 300, 100) EXCEPT !.vanished = TRUE]

\* What a test's output directory may hold.
DirContents ==
    { {CoreBin, DataCsv, EmptyOut},
      {RunLog, DataCsv, HugeDat, NoteTxt},
      {EmptyOut, SkipTmp, BusyLock},
      {CoreBin, EmptyOut, GoneTxt, SkipTmp} }

\* files.sort(key=lambda fn: [fn!='run.log', fn])
FileKeyLess(f, g) ==
    \/ f.name = "run.log" /\ g.name # "run.log"
    \/ (f.name = "run.log") = (g.name = "run.log") /\ Rank(f.name) < Rank(g.name)

RECURSIVE SortFiles(_)
SortFiles(dir) ==
    IF dir = {} THEN <<>>
    ELSE LET first == CHOOSE f \in dir : \A g \in dir \ {f} : FileKeyLess(f, g)
         IN  <<first>> \o SortFiles(dir \ {first})

\* zip accounts a member's compressed size, tar.* its size
Accounted(f, format) == IF format = "zip" THEN f.csize ELSE f.size

\* if bytesRemaining < 500: skippedFiles.append(fn); continue
BudgetExhausted_Never(bytesRemaining) == FALSE
BudgetExhausted(bytesRemaining) == bytesRemaining < MinBytes

\* if fileSize > bytesRemaining:
TooBig(f, bytesRemaining) == f.size > bytesRemaining

\* One pass of the loop over files.  a: bytesRemaining, triedTmpZipFile,
\* filesInZip, skippedFiles, the bytes of the archive, whether getsize has
\* raised, and a record of each pass.
LoopStep(f, verdict, trial, before, after) ==
    [name |-> f.name, size |-> f.size, csize |-> f.csize, verdict |-> verdict,
     trial |-> trial, before |-> before, after |-> after]

SkipFile(a, f, trial) ==
    [a EXCEPT !.skippedFiles = Append(@, f.name),
              !.triedTmpZipFile = @ \/ trial,
              !.steps = Append(@, LoopStep(f, "skipped", trial, a.bytesRemaining,
                                           a.bytesRemaining))]

AddMember(a, f, format, trial) ==
    [a EXCEPT !.filesInZip = @ + 1,
              !.bytesRemaining = @ - Accounted(f, format),
              !.bytes = @ + f.csize,
              !.triedTmpZipFile = @ \/ trial,
              !.steps = Append(@, LoopStep(f, "added", trial, a.bytesRemaining,
                                           a.bytesRemaining - Accounted(f, format)))]

ArchiveFile(a, f, format) ==
    IF a.raised THEN a
    ELSE IF f.excluded THEN SkipFile(a, f, FALSE)
    ELSE IF f.vanished THEN [a EXCEPT !.raised = TRUE]
    ELSE IF f.size = 0
         THEN [a EXCEPT !.steps = Append(@, LoopStep(f, "ignored", FALSE,
                                            a.bytesRemaining, a.bytesRemaining))]
    ELSE IF BudgetExhausted(a.bytesRemaining) THEN SkipFile(a, f, FALSE)
    ELSE IF TooBig(f, a.bytesRemaining)
         THEN IF a.triedTmpZipFile \/ format # "zip" THEN SkipFile(a, f, FALSE)
              ELSE IF f.locked \/ f.csize > a.bytesRemaining THEN SkipFile(a, f, TRUE)
              ELSE AddMember(a, f, format, TRUE)
    ELSE IF f.locked THEN SkipFile(a, f, FALSE)
    ELSE AddMember(a, f, format, FALSE)

RECURSIVE ArchiveFiles(_, _, _)
ArchiveFiles(a, files, format) ==
    IF files = <<>> THEN a
    ELSE ArchiveFiles(ArchiveFile(a, Head(files), format), Tail(files), format)

Min(x, y) == IF x <= y THEN x ELSE y

\* bytesRemaining = min(int(self.maxArchiveSizeMB*1024*1024), self.__totalBytesRemaining)
NewArchive(maxArchiveBytes, totalRemaining) ==
    [bytesRemaining |-> Min(maxArchiveBytes, totalRemaining), triedTmpZipFile |-> FALSE,
     filesInZip |-> 0, skippedFiles |-> <<>>, bytes |-> 0, raised |-> FALSE,
     steps |-> <<>>]

(***************************************************************************)
(* The runner                                                              *)
(***************************************************************************)
NoResult == [id |-> 0, outcome |-> "none"]

\* The settings of includeNonFailureOutcomes a project may give: the
\* archive writer's default, '*', the empty string, ' not verified , ' and
\* ' * ' (which is not the setting '*').
IncludeSettings ==
    {<<Piece("REQUIRES INSPECTION", FALSE, FALSE)>>,
     Star,
     <<Piece("", FALSE, FALSE)>>,
     <<Piece("NOT VERIFIED", TRUE, TRUE), Piece("", FALSE, TRUE)>>,
     <<Piece("*", FALSE, TRUE)>>}

(***************************************************************************)
(* TestOutputArchiveWriter                                                 *)
(***************************************************************************)
\* The configured properties.  The two size limits are given in bytes:
\* int(float(maxTotalSizeMB)*1024*1024) and int(maxArchiveSizeMB*1024*1024).
ArchiveConfigs ==
    [maxArchives : {0, 1, 2},
     limits : {[maxTotalBytes |-> 1000, maxArchiveBytes |-> 700],
               [maxTotalBytes |-> 1000, maxArchiveBytes |-> 4000],
               [maxTotalBytes |-> 8000, maxArchiveBytes |-> 4000]},
     format : {"zip", "tar.gz"},
     archiveAtEndOfRun : BOOLEAN,
     includeNonFailureOutcomes : IncludeSettings]

NoArchive == [id |-> 0, format |-> "none", start |-> 0, total |-> 0, steps |-> <<>>,
              skippedFiles |-> <<>>]

\* A directory: whether it exists, and the names of its entries by their
\* stem and their ending.
Dir(files) == [exists |-> TRUE, files |-> files]
NoDir == [exists |-> FALSE, files |-> {}]
Entry(stem, ending) == [stem |-> stem, ending |-> ending]

\* What an earlier run may have left in destDir.
OldDirs ==
    {NoDir,
     Dir({}),
     Dir({Entry("MyTest_001.out", ".zip"), Entry("skipped_artifacts", ".txt")}),
     Dir({Entry("MyTest_002.out", ".tar.gz"), Entry("MyTest_003.out", ".tar.xz")}),
     Dir({Entry("MyTest_001.out", ".zip"), Entry("report", ".html")})}

\* if os.path.exists(self.destDir) and all(f.endswith(('.txt', '.zip',
\* '.tar.gz', '.tar.xz')) for f in os.listdir(self.destDir)):
DeletesDestDir_IfExists(dir) == dir.exists
DeletesDestDir(dir) ==
    /\ dir.exists
    /\ \A f \in dir.files : f.ending \in {".txt", ".zip", ".tar.gz", ".tar.xz"}

\* The writer as constructed, with its properties set from the project
\* configuration, and destDir as it is then.
ArchiveWriterIn(cfg, phase, dir) ==
    /\ destDirFound = dir
    /\ destDirOld = dir
    /\ aCfg = cfg
    /\ aPhase = phase
    /\ aInclude = <<>>
    /\ queuedInstructions = <<>>
    /\ todo = <<>>
    /\ skippedTests = <<>>
    /\ archivesCreated = 0
    /\ totalBytesRemaining = 0
    /\ destFiles = <<>>
    /\ skippedArtifacts = [written |-> FALSE, lines |-> <<>>]
    /\ archLog = <<>>
    /\ lastArchive = NoArchive

\* The writer in a project whose destDir does not exist yet.
NewArchiveWriter(cfg, phase) == ArchiveWriterIn(cfg, phase, NoDir)

InitArchive == \E cfg \in ArchiveConfigs : NewArchiveWriter(cfg, "new")

\* The project configures no TestOutputArchiveWriter.
NoArchiveWriter == NewArchiveWriter(CHOOSE cfg \in ArchiveConfigs : TRUE, "none")

\* setup
ArchSetup ==
    /\ aPhase = "new"
    /\ LET parsed == ParseIncludeNonFailureOutcomes(aCfg.includeNonFailureOutcomes)
       IN  /\ aInclude' = parsed.list
           /\ aPhase' = IF parsed.ok THEN "running" ELSE "UserError"
    /\ destDirOld' = IF DeletesDestDir(destDirOld) THEN NoDir ELSE destDirOld
    /\ totalBytesRemaining' = aCfg.limits.maxTotalBytes
    /\ queuedInstructions' = <<>>
    /\ skippedTests' = <<>>
    /\ archivesCreated' = 0
    /\ UNCHANGED <<aCfg, todo, destFiles, skippedArtifacts, archLog, lastArchive,
                   destDirFound>>
    /\ UNCHANGED <<procVars, jsonVars, result, restVars>>

\* hashlib.sha1(id.encode('utf-8')).hexdigest(): distinct ids have distinct
\* digests, whose order is unrelated to the order of the ids.
Sha1(id) == (id * 3) % 7

\* if self.archivesCreated == self.maxArchives:
MaxArchivesReached_Never(created, maxArchives) == FALSE
MaxArchivesReached(created, maxArchives) == created = maxArchives

\* _archiveTestOutputDir(id, outputDir) for an output directory holding dir:
\* the writer's fields afterwards, the entry for archLog, and whether the
\* call raised.  An archive that getsize interrupted stays in destDir and is
\* not subtracted from the total; one without members is removed.  The
\* bytes of an archive are those of its members' compressed data.
ArchiveTestOutputDir(id, dir) ==
    LET unchanged == [skippedTests |-> skippedTests, archivesCreated |-> archivesCreated,
                      totalBytesRemaining |-> totalBytesRemaining,
                      destFiles |-> destFiles, lastArchive |-> lastArchive,
                      raised |-> FALSE, result |-> "none"]
        a == ArchiveFiles(NewArchive(aCfg.limits.maxArchiveBytes, totalBytesRemaining),
                          SortFiles(dir), aCfg.format)
        last == [id |-> id, format |-> aCfg.format,
                 start |-> NewArchive(aCfg.limits.maxArchiveBytes,
                                      totalBytesRemaining).bytesRemaining,
                 total |-> totalBytesRemaining, steps |-> a.steps,
                 skippedFiles |-> a.skippedFiles]
    IN  IF MaxArchivesReached(archivesCreated, aCfg.maxArchives)
        THEN [unchanged EXCEPT !.skippedTests = Append(@, id),
                               !.result = "skipped: maxArchives"]
        ELSE IF BudgetExhausted(totalBytesRemaining)
        THEN [unchanged EXCEPT !.skippedTests = Append(@, id),
                               !.result = "skipped: maxTotalSizeMB"]
        ELSE IF a.raised
        THEN [unchanged EXCEPT !.skippedTests = Append(@, id),
                               !.archivesCreated = @ + 1,
                               !.destFiles = Append(@, <<id, a.bytes>>),
                               !.lastArchive = last,
                               !.raised = TRUE,
                               !.result = "raised"]
        ELSE IF a.filesInZip = 0
        THEN [unchanged EXCEPT !.lastArchive = last, !.result = "empty"]
        ELSE [unchanged EXCEPT !.archivesCreated = @ + 1,
                               !.totalBytesRemaining = @ - a.bytes,
                               !.destFiles = Append(@, <<id, a.bytes>>),
                               !.lastArchive = last,
                               !.result = "archived"]

Archived(id, r) ==
    /\ skippedTests' = r.skippedTests
    /\ archivesCreated' = r.archivesCreated
    /\ totalBytesRemaining' = r.totalBytesRemaining
    /\ destFiles' = r.destFiles
    /\ lastArchive' = r.lastArchive
    /\ archLog' = Append(archLog, [id |-> id, result |-> r.result])

\* The ids of the results the writer has queued or archived so far.
SeenIds == {queuedInstructions[i][2] : i \in DOMAIN queuedInstructions}
           \cup {archLog[i].id : i \in DOMAIN archLog}

\* processResult for the result of test id with outcome o.  A result that
\* shouldArchive rejects returns at once.  An exception of
\* _archiveTestOutputDir goes to the runner, which logs it and goes on.
ArchProcessResult(id, o) ==
    /\ aPhase = "running"
    /\ id \notin SeenIds \cup {result.id}
    /\ result' = [id |-> id, outcome |-> o]
    /\ IF ~ShouldArchive(o, aInclude)
       THEN UNCHANGED <<queuedInstructions, skippedTests, archivesCreated,
                        totalBytesRemaining, destFiles, archLog, lastArchive>>
       ELSE IF aCfg.archiveAtEndOfRun
       THEN /\ queuedInstructions' = Append(queuedInstructions, <<Sha1(id), id>>)
            /\ UNCHANGED <<skippedTests, archivesCreated, totalBytesRemaining, destFiles,
                           archLog, lastArchive>>
       ELSE /\ \E dir \in DirContents : Archived(id, ArchiveTestOutputDir(id, dir))
            /\ UNCHANGED queuedInstructions
    /\ UNCHANGED <<aCfg, aPhase, aInclude, todo, skippedArtifacts>>
    /\ UNCHANGED <<procVars, dirVars, jsonVars, restVars>>

\* The order of two queued instructions [sha1, id, outputDir] as lists.
InstructionLess(x, y) == x[1] < y[1] \/ (x[1] = y[1] /\ x[2] < y[2])

RECURSIVE Insert(_, _)
Insert(x, sorted) ==
    IF sorted = <<>> THEN <<x>>
    ELSE IF InstructionLess(x, Head(sorted)) THEN <<x>> \o sorted
    ELSE <<Head(sorted)>> \o Insert(x, Tail(sorted))

RECURSIVE InsertAll(_, _)
InsertAll(q, sorted) ==
    IF q = <<>> THEN sorted ELSE InsertAll(Tail(q), Insert(Head(q), sorted))

\* sorted(self.queuedInstructions)
SortedInstructions_AsQueued(q) == q
SortedInstructions(q) == InsertAll(q, <<>>)

\* cleanup: the loop over the sorted queue begins
ArchCleanupBegin ==
    /\ aPhase = "running"
    /\ aPhase' = "cleanup"
    /\ todo' = IF aCfg.archiveAtEndOfRun THEN SortedInstructions(queuedInstructions)
               ELSE <<>>
    /\ UNCHANGED <<aCfg, aInclude, queuedInstructions, skippedTests, archivesCreated,
                   totalBytesRemaining, destFiles, skippedArtifacts, archLog,
                   lastArchive>>
    /\ UNCHANGED <<procVars, dirVars, jsonVars, result, restVars>>

\* cleanup: one pass of the loop; an exception of _archiveTestOutputDir
\* leaves cleanup
ArchCleanupArchive ==
    /\ aPhase = "cleanup"
    /\ todo # <<>>
    /\ \E dir \in DirContents :
          LET r == ArchiveTestOutputDir(Head(todo)[2], dir)
          IN  /\ Archived(Head(todo)[2], r)
              /\ aPhase' = IF r.raised THEN "raised" ELSE "cleanup"
    /\ todo' = Tail(todo)
    /\ UNCHANGED <<aCfg, aInclude, queuedInstructions, skippedArtifacts>>
    /\ UNCHANGED <<procVars, dirVars, jsonVars, result, restVars>>

\* cleanup: after the loop skipped_artifacts.txt is written if any test was
\* skipped
ArchCleanupFinish ==
    /\ aPhase = "cleanup"
    /\ todo = <<>>
    /\ aPhase' = "done"
    /\ skippedArtifacts' = IF skippedTests # <<>>
                           THEN [written |-> TRUE, lines |-> skippedTests]
                           ELSE skippedArtifacts
    /\ UNCHANGED <<aCfg, aInclude, queuedInstructions, todo, skippedTests,
                   archivesCreated, totalBytesRemaining, destFiles, archLog, lastArchive>>
    /\ UNCHANGED <<procVars, dirVars, jsonVars, result, restVars>>

(***************************************************************************)
(* JSONResultsWriter                                                       *)
(***************************************************************************)
\* What is written to the log file, as JSON tokens (white space left out):
\* punctuation, a key, or a dict that json.dump has written.
Tok(kind, text) == [kind |-> kind, text |-> text, id |-> 0, outcome |-> ""]
RunDetails == Tok("dict", "runDetails")
\* createTestResultDict
TestResultDict(id, o) == [kind |-> "dict", text |-> "result", id |-> id, outcome |-> o]

NewJSONWriter(raw, phase) ==
    /\ jRaw = raw
    /\ jPhase = phase
    /\ jInclude = <<>>
    /\ fp = <<>>
    /\ resultsWritten = 0
    /\ jCalls = <<>>

InitJSON == \E raw \in IncludeSettings : NewJSONWriter(raw, "new")

\* The project configures no JSONResultsWriter.
NoJSONWriter == NewJSONWriter(Star, "none")

\* setup: UserError leaves self.fp None
JsonSetup ==
    /\ jPhase = "new"
    /\ LET parsed == ParseIncludeNonFailureOutcomes(jRaw)
       IN  /\ jInclude' = parsed.list
           /\ jPhase' = IF parsed.ok THEN "open" ELSE "UserError"
           /\ fp' = IF parsed.ok
                    THEN <<Tok("{", ""), Tok("key", "runDetails"), Tok(":", ""), RunDetails,
                           Tok(",", ""), Tok("key", "results"), Tok(":", ""), Tok("[", "")>>
                    ELSE fp
    /\ resultsWritten' = 0
    /\ UNCHANGED <<jRaw, jCalls>>
    /\ UNCHANGED <<procVars, archVars, result, restVars>>

\* outcome.isFailure() or str(outcome) in self.includeNonFailureOutcomes
Included(o, list) == IsFailure(o) \/ \E i \in DOMAIN list : list[i] = Str(o)

\* if self.resultsWritten > 0: self.fp.write(',\n')
WritesComma_Always(written) == TRUE
WritesComma(written) == written > 0

\* processResult
JsonProcessResult(id, o) ==
    /\ jPhase = "open"
    /\ \A i \in DOMAIN jCalls : jCalls[i].id # id
    /\ result' = [id |-> id, outcome |-> o]
    /\ jCalls' = Append(jCalls, [id |-> id, outcome |-> o])
    /\ IF ~Included(o, jInclude)
       THEN UNCHANGED <<fp, resultsWritten>>
       ELSE /\ fp' = fp \o (IF WritesComma(resultsWritten) THEN <<Tok(",", "")>> ELSE <<>>)
                        \o <<TestResultDict(id, o)>>
            /\ resultsWritten' = resultsWritten + 1
    /\ UNCHANGED <<jRaw, jPhase, jInclude>>
    /\ UNCHANGED <<procVars, archVars, restVars>>

\* json.load of the elements of the results array: tokens is what follows
\* "[" (or a comma, if afterComma); the values up to "]" and what follows it.
NoParse == [ok |-> FALSE, values |-> <<>>, rest |-> <<>>]

RECURSIVE LoadArray(_, _, _)
LoadArray(tokens, values, afterComma) ==
    IF tokens = <<>> THEN NoParse
    ELSE IF Head(tokens).kind = "]"
         THEN IF afterComma THEN NoParse
              ELSE [ok |-> TRUE, values |-> values, rest |-> Tail(tokens)]
    ELSE IF Head(tokens).kind = "dict" /\ (values = <<>> \/ afterComma)
         THEN LoadArray(Tail(tokens), Append(values, Head(tokens)), FALSE)
    ELSE IF Head(tokens).kind = "," /\ values # <<>> /\ ~afterComma
         THEN LoadArray(Tail(tokens), values, TRUE)
    ELSE NoParse

\* json.load of the log file
JsonLoad(tokens) ==
    LET opening == <<Tok("{", ""), Tok("key", "runDetails"), Tok(":", ""), RunDetails,
                     Tok(",", ""), Tok("key", "results"), Tok(":", ""), Tok("[", "")>>
        array == LoadArray(SubSeq(tokens, Len(opening) + 1, Len(tokens)), <<>>, FALSE)
    IN  IF /\ Len(tokens) > Len(opening)
           /\ SubSeq(tokens, 1, Len(opening)) = opening
           /\ array.ok
           /\ array.rest = <<Tok("}", "")>>
        THEN [ok |-> TRUE, results |-> array.values]
        ELSE [ok |-> FALSE, results |-> <<>>]

\* cleanup, for a writer whose setup opened the file
JsonCleanup ==
    /\ jPhase = "open"
    /\ fp' = fp \o <<Tok("]", ""), Tok("}", "")>>
    /\ jPhase' = IF JsonLoad(fp').ok THEN "closed" ELSE "JSONDecodeError"
    /\ UNCHANGED <<jRaw, jInclude, resultsWritten, jCalls>>
    /\ UNCHANGED <<procVars, archVars, result, restVars>>

(***************************************************************************)
(* Properties of the writers                                               *)
(***************************************************************************)
Range(seq) == {seq[i] : i \in DOMAIN seq}
Last(seq) == seq[Len(seq)]

\* The calls of _archiveTestOutputDir before the j-th that left an archive
\* counted in archivesCreated.
CreatedBefore(j) ==
    Cardinality({i \in 1..(j - 1) : archLog[i].result \in {"archived", "raised"}})

\* C5: archivesCreated, and the number of archives in destDir, never exceed
\* maxArchives (a limit of 0 or more), and every call of
\* _archiveTestOutputDir made once maxArchives archives are counted creates
\* no archive and adds the test to skippedTests.
C5_ArchivesNeverExceedMaxArchives ==
    aPhase # "none" =>
        /\ archivesCreated <= aCfg.maxArchives
        /\ Len(destFiles) <= aCfg.maxArchives
        /\ archivesCreated = CreatedBefore(Len(archLog) + 1)
        /\ \A j \in DOMAIN archLog :
              CreatedBefore(j) = aCfg.maxArchives =>
                  /\ archLog[j].result = "skipped: maxArchives"
                  /\ archLog[j].id \in Range(skippedTests)
                  /\ \A k \in DOMAIN destFiles : destFiles[k][1] # archLog[j].id

\* C5: an archive was created, the limit was reached, and a later eligible
\* test was skipped for it.
C5_Witness ==
    /\ aCfg.maxArchives >= 1
    /\ archivesCreated = aCfg.maxArchives
    /\ \E i, j \in DOMAIN archLog :
          /\ i < j
          /\ archLog[i].result = "archived"
          /\ archLog[j].result = "skipped: maxArchives"

RECURSIVE SumBytes(_)
SumBytes(files) == IF files = <<>> THEN 0 ELSE Head(files)[2] + SumBytes(Tail(files))

\* The bytes of the archives in destDir.
DiskUsage == SumBytes(destFiles)

\* C6: no archive is begun while maxTotalSizeMB in bytes less the sizes of
\* the archives in destDir is below 500.  (The code violates this: an
\* archive that an exception interrupted stays in destDir uncounted.)
C6_NoArchiveBegunBelowMinBytes ==
    [][lastArchive' # lastArchive =>
          aCfg.limits.maxTotalBytes - DiskUsage >= MinBytes]_vars

\* What the file loop accounts for a member it adds.
AccountedSize(step, format) == IF format = "zip" THEN step.csize ELSE step.size

TrialCount(steps) == Cardinality({i \in DOMAIN steps : steps[i].trial})

\* C7 as claimed: the budget of an archive starts at the minimum of the two
\* limits and never becomes negative; a file is added only if its size (or,
\* in the one temp-zip trial, its compressed size) is within the budget,
\* which then falls by the accounted size; below 500 every further file is
\* skipped and listed.
C7_BudgetNeverNegative ==
    lastArchive # NoArchive =>
        /\ lastArchive.start = Min(aCfg.limits.maxArchiveBytes, lastArchive.total)
        /\ TrialCount(lastArchive.steps) <= 1
        /\ \A i \in DOMAIN lastArchive.steps :
              LET step == lastArchive.steps[i]
              IN  /\ step.after >= 0
                  /\ step.verdict = "added" =>
                        /\ step.size <= step.before \/ (step.trial /\ step.csize <= step.before)
                        /\ step.after = step.before - AccountedSize(step, lastArchive.format)
                  /\ step.before < MinBytes =>
                        /\ step.verdict = "skipped"
                        /\ step.name \in Range(lastArchive.skippedFiles)

\* C7, amended: the budget starts at the minimum of the two limits; a file
\* is added only while at least 500 bytes remain and only if its size (or,
\* in the one temp-zip trial of a zip archive, its compressed size) is
\* within the budget, which then falls by the accounted size; the budget of
\* a tar archive never becomes negative, that of a zip archive only by the
\* bytes by which a member's compressed size exceeds its size; below 500
\* every further file of non-zero size is skipped and listed, and files of
\* size zero are passed over unlisted.
C7_BudgetWithinExpansion ==
    lastArchive # NoArchive =>
        /\ lastArchive.start = Min(aCfg.limits.maxArchiveBytes, lastArchive.total)
        /\ TrialCount(lastArchive.steps) <= 1
        /\ \A i \in DOMAIN lastArchive.steps :
              LET step == lastArchive.steps[i]
              IN  /\ i = 1 => step.before = lastArchive.start
                  /\ i > 1 => step.before = lastArchive.steps[i - 1].after
                  /\ step.trial => lastArchive.format = "zip"
                  /\ step.verdict = "added" =>
                        /\ step.before >= MinBytes
                        /\ step.size <= step.before \/ (step.trial /\ step.csize <= step.before)
                        /\ step.after = step.before - AccountedSize(step, lastArchive.format)
                  /\ step.verdict # "added" => step.after = step.before
                  /\ lastArchive.format # "zip" => step.after >= 0
                  /\ step.after < 0 /\ step.before >= 0 =>
                        /\ ~step.trial
                        /\ step.after >= step.size - step.csize
                  /\ step.before < MinBytes /\ step.size > 0 =>
                        /\ step.verdict = "skipped"
                        /\ step.name \in Range(lastArchive.skippedFiles)
                  /\ step.size = 0 /\ step.verdict # "skipped" =>
                        /\ step.verdict = "ignored"
                        /\ step.name \notin Range(lastArchive.skippedFiles)

\* C7: a zip archive whose budget a member drove below zero, after which a
\* file was skipped and listed and an empty one passed over.
C7_Witness ==
    /\ lastArchive.format = "zip"
    /\ \E i, j, k \in DOMAIN lastArchive.steps :
          /\ i < j /\ i < k
          /\ lastArchive.steps[i].verdict = "added"
          /\ lastArchive.steps[i].after < 0
          /\ lastArchive.steps[j].verdict = "skipped"
          /\ lastArchive.steps[k].verdict = "ignored"

\* The ids of a set of tests in ascending order of their SHA-1.
RECURSIVE BySha1(_)
BySha1(ids) ==
    IF ids = {} THEN <<>>
    ELSE LET first == CHOOSE id \in ids : \A other \in ids : Sha1(id) <= Sha1(other)
         IN  <<first>> \o BySha1(ids \ {first})

QueuedIds == {queuedInstructions[i][2] : i \in DOMAIN queuedInstructions}

\* The tests cleanup has handed to _archiveTestOutputDir, then those it has
\* yet to.
CleanupOrder ==
    [i \in DOMAIN archLog |-> archLog[i].id] \o [i \in DOMAIN todo |-> todo[i][2]]

\* C8: with archiveAtEndOfRun nothing is archived before cleanup, and
\* cleanup takes the queued tests in ascending order of the SHA-1 of their
\* ids, an order that depends on the set of queued results alone: every
\* order of arrival of the same results sorts to the same sequence.
C8_ArchivingOrderIndependentOfArrival ==
    aPhase # "none" /\ aCfg.archiveAtEndOfRun =>
        /\ aPhase \in {"new", "UserError", "running"} => archLog = <<>>
        /\ aPhase \in {"cleanup", "raised", "done"} => CleanupOrder = BySha1(QueuedIds)
        /\ aPhase = "cleanup" /\ archLog = <<>> =>
              \A p \in Permutations(DOMAIN queuedInstructions) :
                  SortedInstructions([i \in DOMAIN queuedInstructions |->
                                         queuedInstructions[p[i]]]) = todo

\* C8: results that arrived in an order other than that of their SHA-1 were
\* archived up to maxArchives, and the rest skipped.
C8_Witness ==
    /\ aCfg.archiveAtEndOfRun
    /\ aPhase = "done"
    /\ queuedInstructions # SortedInstructions(queuedInstructions)
    /\ Len(archLog) = MaxTests
    /\ archLog[1].result = "archived"
    /\ archLog[MaxTests].result = "skipped: maxArchives"

\* A result qualifies if its outcome is a failure or its display name is
\* listed in the setting (in any case, with any white space around it);
\* the setting '*' lists every outcome, the empty string none.
Qualifies(o, raw) ==
    \/ IsFailure(o)
    \/ raw = Star
    \/ \E i \in DOMAIN raw : raw[i].text = o

\* C9: a result handed to processResult is queued or archived by
\* TestOutputArchiveWriter, and written by JSONResultsWriter, if and only
\* if it qualifies; one that does not leaves the writer and its output as
\* they were.
C9_ProcessedIffQualifies ==
    [][result' # result =>
          LET o == result'.outcome
          IN  /\ aPhase = "running" =>
                    /\ (queuedInstructions' # queuedInstructions \/ archLog' # archLog)
                          <=> Qualifies(o, aCfg.includeNonFailureOutcomes)
                    /\ ~Qualifies(o, aCfg.includeNonFailureOutcomes) => UNCHANGED archVars
              /\ jPhase = "open" =>
                    /\ (fp' # fp) <=> Qualifies(o, jRaw)
                    /\ Qualifies(o, jRaw) =>
                          Last(fp') = TestResultDict(result'.id, o)
                    /\ ~Qualifies(o, jRaw) =>
                          UNCHANGED <<jRaw, jPhase, jInclude, fp, resultsWritten>>
                    /\ UNCHANGED archVars]_vars

\* C9: a result that is no failure was archived for being listed, in lower
\* case and between blanks, in includeNonFailureOutcomes.
C9_Witness ==
    /\ aPhase = "running"
    /\ aCfg.includeNonFailureOutcomes
          = <<Piece("NOT VERIFIED", TRUE, TRUE), Piece("", FALSE, TRUE)>>
    /\ result.outcome = "NOT VERIFIED"
    /\ archLog # <<>>
    /\ Last(archLog).id = result.id
    /\ Last(archLog).result = "archived"

\* The results among the calls of processResult that qualify, as the dicts
\* written for them.
IncludedResults ==
    LET calls == SelectSeq(jCalls, LAMBDA c : Qualifies(c.outcome, jRaw))
    IN  [i \in DOMAIN calls |-> TestResultDict(calls[i].id, calls[i].outcome)]

\* What the log file holds after '"results":['.
ResultsPart == SubSeq(fp, 9, Len(fp))

\* C10: after setup, every comma of the results array stands between two
\* results and every two consecutive results have one comma between them;
\* after cleanup the file loads as one JSON document
\* {"runDetails": ..., "results": [...]} whose results are the included
\* results in call order.
C10_LogFileIsValidJSON ==
    /\ jPhase # "JSONDecodeError"
    /\ jPhase \in {"open", "closed"} =>
          /\ resultsWritten = Len(IncludedResults)
          /\ \A i \in DOMAIN ResultsPart :
                /\ ResultsPart[i].kind = "," =>
                      /\ 1 < i /\ i < Len(ResultsPart)
                      /\ ResultsPart[i - 1].kind = "dict"
                      /\ ResultsPart[i + 1].kind = "dict"
                /\ ResultsPart[i].kind = "dict" /\ i < Len(ResultsPart) =>
                      ResultsPart[i + 1].kind \in {",", "]"}
          /\ Cardinality({i \in DOMAIN ResultsPart : ResultsPart[i].kind = ","})
                = (IF resultsWritten = 0 THEN 0 ELSE resultsWritten - 1)
    /\ jPhase = "closed" =>
          /\ JsonLoad(fp).ok
          /\ JsonLoad(fp).results = IncludedResults

\* C10: a closed log file with two results or more, and a result that was
\* filtered out between the first call and the last.
C10_Witness ==
    /\ jPhase = "closed"
    /\ Len(JsonLoad(fp).results) >= 2
    /\ Len(jCalls) = MaxTests
    /\ \E i \in DOMAIN jCalls : ~Qualifies(jCalls[i].outcome, jRaw)

(***************************************************************************)
(* CollectTestOutputWriter                                                 *)
(***************************************************************************)
\* The tests whose output is collected and the base names of their files.
CollectTests == {1, 2}
CollectNames == {"a", "b"}

\* outputPattern always holds @UNIQUE@; it may hold @TESTID@ and @FILENAME@.
OutputPatterns == [testId : BOOLEAN, fileName : BOOLEAN]

\* A file left in destDir by an earlier run.
StaleFile == [path |-> <<0, "", 1>>, from |-> 0]

NewCollectWriter(pattern, phase, files) ==
    /\ cPhase = phase
    /\ outputPattern = pattern
    /\ cDestDir = files
    /\ collectedFileCount = 0
    /\ cCollected = <<>>

InitCollect ==
    \E pattern \in OutputPatterns, files \in {{}, {StaleFile}} :
        NewCollectWriter(pattern, "new", files)

\* The project configures no CollectTestOutputWriter.
NoCollectWriter == NewCollectWriter([testId |-> TRUE, fileName |-> TRUE], "none", {})

\* setup: if os.path.exists(self.destDir): deletedir(self.destDir)
CollectSetup ==
    /\ cPhase = "new"
    /\ cPhase' = "running"
    /\ cDestDir' = {}
    /\ collectedFileCount' = 0
    /\ UNCHANGED <<outputPattern, cCollected>>
    /\ UNCHANGED <<procVars, writerVars, projectVars, findVars, startVars, xmlVars>>

\* collectdest with @UNIQUE@ replaced by i
CollectDest(t, name, i) ==
    <<IF outputPattern.testId THEN t ELSE 0,
      IF outputPattern.fileName THEN name ELSE "", i>>

PathExists(path) == \E f \in cDestDir : f.path = path

\* i = 1; while pathexists(collectdest.replace('@UNIQUE@', '%d'%(i))): i += 1
RECURSIVE Unique(_, _, _)
Unique_AlwaysOne(t, name, i) == 1
Unique(t, name, i) ==
    IF PathExists(CollectDest(t, name, i)) THEN Unique(t, name, i + 1) ELSE i

\* shutil.copyfile(src, dst) replaces what dst held
CopyFile(from, path) == {f \in cDestDir : f.path # path} \cup {[path |-> path, from |-> from]}

\* collectPath for file name of test t
CollectPath(t, name) ==
    /\ cPhase = "running"
    /\ Len(cCollected) < MaxCollected
    /\ LET path == CollectDest(t, name, Unique(t, name, 1))
           from == Len(cCollected) + 1
       IN  /\ cDestDir' = CopyFile(from, path)
           /\ cCollected' = Append(cCollected, [from |-> from, test |-> t, name |-> name,
                                                path |-> path])
    /\ collectedFileCount' = collectedFileCount + 1
    /\ UNCHANGED <<cPhase, outputPattern>>
    /\ UNCHANGED <<procVars, writerVars, projectVars, findVars, startVars, xmlVars>>

\* C11: after any sequence of collectPath calls destDir holds
\* collectedFileCount files, every file collected is still there under the
\* path it was given, and @UNIQUE@ was replaced by the smallest positive
\* number whose path did not exist when the file was collected.
C11_CollectedFilesNeverClash ==
    cPhase = "running" =>
        /\ Cardinality(cDestDir) = collectedFileCount
        /\ Cardinality({f.path : f \in cDestDir}) = collectedFileCount
        /\ collectedFileCount = Len(cCollected)
        /\ \A k \in DOMAIN cCollected :
              /\ [path |-> cCollected[k].path, from |-> cCollected[k].from] \in cDestDir
              /\ cCollected[k].path[3] >= 1
              /\ \A i \in 1..(cCollected[k].path[3] - 1) :
                    \E j \in 1..(k - 1) :
                        cCollected[j].path = [cCollected[k].path EXCEPT ![3] = i]
              /\ \A j \in 1..(k - 1) : cCollected[j].path # cCollected[k].path

\* C11: a pattern without @TESTID@ and @FILENAME@ under which files of two tests
\* were given the numbers 1, 2 and 3.
C11_Witness ==
    /\ cPhase = "running"
    /\ ~outputPattern.testId /\ ~outputPattern.fileName
    /\ Len(cCollected) >= 3
    /\ cCollected[3].path[3] = 3
    /\ \E j, k \in DOMAIN cCollected : cCollected[j].test # cCollected[k].test

EligibleIds == QueuedIds \cup {archLog[i].id : i \in DOMAIN archLog}

\* How _archiveTestOutputDir ended for test id, "none" if it was not called.
ResultOf(id) ==
    IF \E i \in DOMAIN archLog : archLog[i].id = id
    THEN archLog[CHOOSE i \in DOMAIN archLog : archLog[i].id = id].result
    ELSE "none"

\* C13: once cleanup has ended, every test skipped for a limit or for an
\* exception is in skippedTests, skipped_artifacts.txt is written if and
\* only if a test was skipped and lists exactly the skipped tests, and every
\* eligible test was archived, is listed as skipped, or gave an empty
\* archive.  (The code violates this: an exception of _archiveTestOutputDir
\* ends cleanup before the file is written and before the tests that follow
\* are looked at.)
C13_SkippedTestsListedAtCleanup ==
    aPhase \in {"done", "raised"} =>
        /\ \A i \in DOMAIN archLog :
              archLog[i].result \in {"skipped: maxArchives", "skipped: maxTotalSizeMB", "raised"}
                  <=> archLog[i].id \in Range(skippedTests)
        /\ skippedArtifacts.written <=> skippedTests # <<>>
        /\ skippedArtifacts.written => skippedArtifacts.lines = skippedTests
        /\ \A id \in EligibleIds :
              \/ ResultOf(id) \in {"archived", "empty"}
              \/ id \in Range(skippedArtifacts.lines)

(***************************************************************************)
(* ProcessImpl.startBackgroundProcess statement by statement, with the     *)
(* handles it opens (pysys/process/plat-win32/helper.py).                  *)
(***************************************************************************)

\* hStdin_r and hStdin are the ends of the pipe, hStdinCopy is the duplicate
\* of hStdin that is not inherited.
HandleNames == {"hStdin_r", "hStdin", "hStdinCopy", "hStdout", "hStderr"}

NoHandle == [opened |-> FALSE, open |-> FALSE, closes |-> 0]

CommandLineLengths == {100, MaxCommandLine - 1, MaxCommandLine, MaxCommandLine + 1000}

Open(hs, h) == [hs EXCEPT ![h] = [opened |-> TRUE, open |-> TRUE, closes |-> 0]]

\* win32file.CloseHandle(h)
CloseHandle(hs, h) == [hs EXCEPT ![h].open = FALSE, ![h].closes = @ + 1]

StarterIn(at) ==
    /\ sPc = at
    /\ handles = [h \in HandleNames |-> NoHandle]
    /\ commandLineLength = 0

\* startBackgroundProcess is about to be called on a new ProcessImpl.
InitStart == StarterIn("sbp_lock")

\* startBackgroundProcess is not followed statement by statement.
NoStart == StarterIn("none")

\* What an Sbp action leaves alone: the threads of the other methods, the
\* configuration and the owner.
sbpRest == <<pc, lock, cfgVars, loc, stopVia, osExitCode, kidsInJob, kidsOut, spawned,
             ownerVars, exitStatus>>

sbpOthers == <<writerVars, collectVars, projectVars, findVars, xmlVars>>

\* with process_lock:
SbpLock ==
    /\ sPc = "sbp_lock"
    /\ processLock = "free"
    /\ processLock' = "main"
    /\ sPc' = "sbp_pipe"
    /\ UNCHANGED <<handles, commandLineLength, fieldVars, startState, osProc, procInJob,
                   sbpRest, sbpOthers>>

\* hStdin_r, hStdin = win32pipe.CreatePipe(sAttrs, 0)
SbpCreatePipe ==
    /\ sPc = "sbp_pipe"
    /\ handles' = Open(Open(handles, "hStdin_r"), "hStdin")
    /\ sPc' = "sbp_stdout"
    /\ UNCHANGED <<commandLineLength, processLock, fieldVars, startState, osProc,
                   procInJob, sbpRest, sbpOthers>>

\* hStdout = win32file.CreateFile(self.stdout, ...) and hStderr =
\* win32file.CreateFile(self.stderr, ...): the file is created, or the call
\* raises pywintypes.error, which leaves the method and its with block.
SbpCreateFile(h, created) ==
    /\ \/ sPc = "sbp_stdout" /\ h = "hStdout"
       \/ sPc = "sbp_stderr" /\ h = "hStderr"
    /\ IF created
       THEN /\ handles' = Open(handles, h)
            /\ sPc' = IF h = "hStdout" THEN "sbp_stderr" ELSE "sbp_duplicate"
            /\ UNCHANGED <<processLock, startState>>
       ELSE /\ startState' = "pywintypes.error"
            /\ processLock' = "free"
            /\ sPc' = "raised"
            /\ UNCHANGED handles
    /\ UNCHANGED <<commandLineLength, fieldVars, osProc, procInJob, sbpRest, sbpOthers>>

\* tmp = win32api.DuplicateHandle(pid, hStdin, ...);
\* win32file.CloseHandle(hStdin); hStdin = tmp
SbpDuplicateHandle ==
    /\ sPc = "sbp_duplicate"
    /\ handles' = CloseHandle(Open(handles, "hStdinCopy"), "hStdin")
    /\ sPc' = "sbp_cmdline"
    /\ UNCHANGED <<commandLineLength, processLock, fieldVars, startState, osProc,
                   procInJob, sbpRest, sbpOthers>>

\* new_command, command_line = self.__buildCommandLine(...);
\* if len(command_line)>=32768: raise ValueError(...)
SbpBuildCommandLine(length) ==
    /\ sPc = "sbp_cmdline"
    /\ commandLineLength' = length
    /\ IF length >= MaxCommandLine
       THEN startState' = "ValueError" /\ sPc' = "sbp_finally"
       ELSE UNCHANGED startState /\ sPc' = "sbp_job"
    /\ UNCHANGED <<handles, processLock, fieldVars, osProc, procInJob, sbpRest, sbpOthers>>

\* self.__job = self._createParentJob()
SbpCreateParentJob ==
    /\ sPc = "sbp_job"
    /\ job' = "job"
    /\ sPc' = "sbp_create"
    /\ UNCHANGED <<handles, commandLineLength, processLock, hProcess, hThread, stdin, pid,
                   startState, osProc, procInJob, sbpRest, sbpOthers>>

\* win32process.CreateProcess: sets the handles and the pid, or raises
\* pywintypes.error, which is raised on as ProcessError.
SbpCreateProcess(created) ==
    /\ sPc = "sbp_create"
    /\ IF created
       THEN /\ hProcess' = "open"
            /\ hThread' = "open"
            /\ pid' = "pid"
            /\ osProc' = IF suspendedStart THEN "suspended" ELSE "running"
            /\ sPc' = "sbp_assign"
            /\ UNCHANGED startState
       ELSE /\ startState' = "ProcessError"
            /\ sPc' = "sbp_finally"
            /\ UNCHANGED <<hProcess, hThread, pid, osProc>>
    /\ UNCHANGED <<handles, commandLineLength, processLock, stdin, job, procInJob,
                   sbpRest, sbpOthers>>

\* win32job.AssignProcessToJobObject, unless killing of child processes is
\* disabled; on failure self.__job = None.  Then ResumeThread for a process
\* created suspended.
SbpAssignAndResume(assigned) ==
    /\ sPc = "sbp_assign"
    /\ IF disableKillingChildProcesses
       THEN job' = "None" /\ UNCHANGED procInJob
       ELSE IF assigned
       THEN procInJob' = TRUE /\ UNCHANGED job
       ELSE job' = "None" /\ UNCHANGED procInJob
    /\ osProc' = IF osProc = "suspended" THEN "running" ELSE osProc
    /\ sPc' = "sbp_finally"
    /\ UNCHANGED <<handles, commandLineLength, processLock, hProcess, hThread, stdin, pid,
                   startState, sbpRest, sbpOthers>>

\* finally: win32file.CloseHandle(hStdin_r); win32file.CloseHandle(hStdout);
\* win32file.CloseHandle(hStderr).  An exception then leaves the method.
SbpFinally ==
    /\ sPc = "sbp_finally"
    /\ handles' = CloseHandle(CloseHandle(CloseHandle(handles, "hStdin_r"), "hStdout"),
                              "hStderr")
    /\ IF startState = "new"
       THEN sPc' = "sbp_stdin" /\ UNCHANGED processLock
       ELSE sPc' = "raised" /\ processLock' = "free"
    /\ UNCHANGED <<commandLineLength, fieldVars, startState, osProc, procInJob, sbpRest,
                   sbpOthers>>

\* self.__stdin = hStdin, and the with block ends
SbpSetStdin ==
    /\ sPc = "sbp_stdin"
    /\ stdin' = "open"
    /\ startState' = "started"
    /\ processLock' = "free"
    /\ sPc' = "returned"
    /\ UNCHANGED <<handles, commandLineLength, hProcess, hThread, pid, job, osProc,
                   procInJob, sbpRest, sbpOthers>>

(***************************************************************************)
(* XMLResultsWriter (pysys/writer/outcomes.py).                            *)
(*                                                                         *)
(* The log file and the serialization of the document are sequences of     *)
(* characters.  The serialization keeps what changes from one write to the *)
(* next: the status and completed attributes of the root element, the      *)
(* results node of each cycle and the result elements in it.               *)
(***************************************************************************)

\* statusAttribute.value="running"
Running == <<"r", "u", "n", "n", "i", "n", "g">>

\* A variant of Complete that is shorter than Running.
Complete_Short == <<"d", "o", "n", "e">>

\* statusAttribute.value="complete"
Complete == <<"c", "o", "m", "p", "l", "e", "t", "e">>

DigitChars == <<"0", "1", "2", "3", "4", "5", "6", "7", "8", "9">>

\* "%s" % n and "%d" % n for a number that is not negative
RECURSIVE Digits(_)
Digits(n) ==
    IF n < 10 THEN <<DigitChars[n + 1]>>
    ELSE Digits(n \div 10) \o <<DigitChars[(n % 10) + 1]>>

\* "%s/%s" % (self.numResults, self.numTests)
Completed(results, tests) == Digits(results) \o <<"/">> \o Digits(tests)

\* str(testObj.getOutcome()) of the outcomes the writer is given.
OutcomeChars(o) ==
    IF o = "PASSED" THEN <<"P", "A", "S", "S", "E", "D">>
    ELSE <<"N", "O", "T", " ", "V", "E", "R", "I", "F", "I", "E", "D">>

XmlOutcomes == {"PASSED", "NOT VERIFIED"}

\* The numTests a runner passes to setup.
NumTestsChoices == {0, 12}

\* The cycles of a run.
Cycles == {0, 1}

\* A <result> element
RECURSIVE SerializeResults(_)
SerializeResults(results) ==
    IF results = <<>> THEN <<>>
    ELSE <<"<", "r", " ">> \o OutcomeChars(Head(results)) \o <<"/", ">">>
         \o SerializeResults(Tail(results))

\* The <results cycle="..."> elements: an element without children is
\* written as an empty-element tag.
RECURSIVE SerializeNodes(_)
SerializeNodes(nodes) ==
    IF nodes = <<>> THEN <<>>
    ELSE LET node == Head(nodes)
             open == <<"<", "c", " ">> \o Digits(node.cycle)
         IN (IF node.results = <<>> THEN open \o <<"/", ">">>
             ELSE open \o <<">">> \o SerializeResults(node.results)
                  \o <<"<", "/", "c", ">">>)
            \o SerializeNodes(Tail(nodes))

\* _serializeXMLDocumentToBytes
SerializeXMLDocumentToBytes(doc) ==
    <<"<", "l", " ">> \o doc.status \o <<" ">> \o doc.completed \o <<">">>
    \o SerializeNodes(doc.nodes) \o <<"<", "/", "l", ">">>

\* self.fp.seek(0); self.fp.write(bytes): the bytes replace the beginning of
\* the file, what the file holds beyond them stays.
WriteFromStart(file, bytes) ==
    bytes \o SubSeq(file, Len(bytes) + 1, Len(file))

NoDocument == [status |-> <<>>, completed |-> <<>>, nodes |-> <<>>]

XmlWriterIn(phase, old) ==
    /\ xmlPhase = phase
    /\ document = NoDocument
    /\ numResults = 0
    /\ numTests = 0
    /\ cycle = -1
    /\ logFile = old
    /\ processed = 0
    /\ lengths = <<>>

\* What an earlier run may have left in the log file.
OldLogFiles ==
    { <<>>,
      SerializeXMLDocumentToBytes(
          [status |-> Complete, completed |-> Completed(2, 2),
           nodes |-> <<[cycle |-> 1, results |-> <<"PASSED", "NOT VERIFIED">>]>>]) }

\* XMLResultsWriter.__init__
InitXml == \E old \in OldLogFiles : XmlWriterIn("new", old)

\* No XMLResultsWriter is configured.
NoXmlWriter == XmlWriterIn("none", <<>>)

xmlOthers == <<procVars, writerVars, collectVars, projectVars, findVars, startVars>>

\* XMLResultsWriter.setup: io.open(..., "wb") empties the file.
XmlSetup(tests) ==
    /\ xmlPhase = "new"
    /\ xmlPhase' = "open"
    /\ numTests' = tests
    /\ document' = [status |-> Running, completed |-> Completed(numResults, tests),
                    nodes |-> <<>>]
    /\ LET bytes == SerializeXMLDocumentToBytes(document')
       IN /\ logFile' = WriteFromStart(<<>>, bytes)
          /\ lengths' = Append(lengths, Len(bytes))
    /\ UNCHANGED <<numResults, cycle, processed>>
    /\ UNCHANGED xmlOthers

\* XMLResultsWriter.processResult, as the runner calls it: with cycle=, after
\* setup and before cleanup.
XmlProcessResult(c, outcome) ==
    /\ xmlPhase = "open"
    /\ processed < MaxResults
    /\ c >= cycle
    /\ processed' = processed + 1
    /\ cycle' = c
    /\ numResults' = numResults + 1
    /\ LET nodes == IF cycle # c
                    THEN Append(document.nodes, [cycle |-> c + 1, results |-> <<>>])
                    ELSE document.nodes
           last == Len(nodes)
       IN document' = [document EXCEPT
                          !.nodes = [nodes EXCEPT ![last].results = Append(@, outcome)],
                          !.completed = Completed(numResults', numTests)]
    /\ LET bytes == SerializeXMLDocumentToBytes(document')
       IN /\ logFile' = WriteFromStart(logFile, bytes)
          /\ lengths' = Append(lengths, Len(bytes))
    /\ UNCHANGED <<xmlPhase, numTests>>
    /\ UNCHANGED xmlOthers

\* XMLResultsWriter.cleanup
XmlCleanup ==
    /\ xmlPhase = "open"
    /\ xmlPhase' = "closed"
    /\ document' = [document EXCEPT !.status = Complete]
    /\ LET bytes == SerializeXMLDocumentToBytes(document')
       IN /\ logFile' = WriteFromStart(logFile, bytes)
          /\ lengths' = Append(lengths, Len(bytes))
    /\ UNCHANGED <<numResults, numTests, cycle, processed>>
    /\ UNCHANGED xmlOthers

(***************************************************************************)
(* The project configuration: XMLProjectParser and Project                 *)
(* (pysys/xml/project.py).                                                 *)
(*                                                                         *)
(* A string is a sequence of pieces.  "$", "{" and "}" are the characters  *)
(* the expansion looks at; every other piece stands for text that holds    *)
(* none of them.                                                           *)
(***************************************************************************)

\* How many <property> elements of the project file are read.
MaxElements == 3

\* The parts a configured value is written from: literal text, a reference
\* ${name} and the escape ${$}.
Lit(text) == <<"lit", text>>
Ref(name) == <<"ref", name>>
Esc == <<"esc", "$">>

\* The string the parts spell.
RECURSIVE Text(_)
Text(parts) ==
    IF parts = <<>> THEN <<>>
    ELSE LET p == Head(parts)
         IN (CASE p[1] = "lit" -> <<p[2]>>
               [] p[1] = "ref" -> <<"$", "{", p[2], "}">>
               [] p[1] = "esc" -> <<"$", "{", "$", "}">>) \o Text(Tail(parts))

\* os.environ, and the names ${env.X} that begin with the prefix 'env.'.
Environ == [v \in {"USER"} |-> <<"Felicity">>]
EnvNames == [m \in {"env.USER", "env.UNSET"} |-> IF m = "env.USER" THEN "USER" ELSE "UNSET"]

\* The built-in properties of XMLProjectParser.__init__.
BuiltinProperties ==
    [n \in {"testRootDir", "os", "root"} |->
        CASE n = "testRootDir" -> <<"/proj">>
          [] n = "os" -> <<"linux">>
          [] n = "root" -> <<"/proj">>]

\* dict[name] = value
SetItem(d, name, value) ==
    [n \in DOMAIN d \cup {name} |-> IF n = name THEN value ELSE d[n]]

NoRaise == "None"

\* expandProperty of XMLProjectParser.expandProperties: the replacement of one
\* match ${m}.
ExpandProperty(m, props) ==
    IF m = <<"$">> THEN [raised |-> NoRaise, text |-> <<"$">>]
    ELSE IF m[1] \in DOMAIN EnvNames
    THEN IF Len(m) = 1 /\ EnvNames[m[1]] \in DOMAIN Environ
         THEN [raised |-> NoRaise, text |-> Environ[EnvNames[m[1]]]]
         ELSE [raised |-> "UserError", text |-> <<>>]
    ELSE IF Len(m) = 1 /\ m[1] \in DOMAIN props
    THEN [raised |-> NoRaise, text |-> props[m[1]]]
    ELSE [raised |-> "UserError", text |-> <<>>]

\* The lambda of Project.expandProperties.
ProjectExpandProperty(m, props) ==
    IF m = <<"$">> THEN [raised |-> NoRaise, text |-> <<"$">>]
    ELSE IF Len(m) = 1 /\ m[1] \in DOMAIN props
    THEN [raised |-> NoRaise, text |-> props[m[1]]]
    ELSE [raised |-> "KeyError", text |-> <<>>]

\* The index of the first "}" of s at or after i, 0 if there is none.
FirstClose(s, i) ==
    IF \E k \in i..Len(s) : s[k] = "}"
    THEN CHOOSE k \in i..Len(s) : s[k] = "}" /\ \A j \in i..(k - 1) : s[j] # "}"
    ELSE 0

\* The pattern [$][{]([^}]+)[}] matches at the head of s.
MatchesAtHead(s) ==
    /\ Len(s) >= 4
    /\ s[1] = "$"
    /\ s[2] = "{"
    /\ s[3] # "}"
    /\ FirstClose(s, 4) # 0

\* A variant of Rescans in which the text a substitution produced is scanned
\* again.
Rescans_Always == TRUE

\* Whether re.sub scans the text a substitution produced.
Rescans == FALSE

\* re.sub(r'[$][{]([^}]+)[}]', expandProperty, s): one pass from left to
\* right; the first replacement that raises ends it.  With rescan, the text
\* of each replacement is scanned once more.
RECURSIVE ReSub(_, _, _, _)
ReSub(s, props, ofProject, rescan) ==
    IF s = <<>> THEN [raised |-> NoRaise, text |-> <<>>]
    ELSE IF MatchesAtHead(s)
    THEN LET k == FirstClose(s, 4)
             m == SubSeq(s, 3, k - 1)
             r == IF ofProject THEN ProjectExpandProperty(m, props)
                  ELSE ExpandProperty(m, props)
             after == SubSeq(s, k + 1, Len(s))
         IN IF r.raised # NoRaise THEN r
            ELSE LET again == IF rescan THEN ReSub(r.text, props, ofProject, FALSE)
                              ELSE r
                     rest == ReSub(after, props, ofProject, rescan)
                 IN IF again.raised # NoRaise THEN again
                    ELSE IF rest.raised # NoRaise THEN rest
                    ELSE [raised |-> NoRaise, text |-> again.text \o rest.text]
    ELSE LET rest == ReSub(Tail(s), props, ofProject, rescan)
         IN IF rest.raised # NoRaise THEN rest
            ELSE [raised |-> NoRaise, text |-> <<s[1]>> \o rest.text]

\* The default= attribute of a <property> element: absent, or a string.
NoDefault == [given |-> FALSE, text |-> <<>>]
Default(text) == [given |-> TRUE, text |-> text]

\* A variant of ExpandProperties that never falls back to the default.
ExpandProperties_NoDefault(value, default, props) ==
    ReSub(value, props, FALSE, Rescans)

\* XMLProjectParser.expandProperties
ExpandProperties(value, default, props) ==
    LET r == ReSub(value, props, FALSE, Rescans)
    IN IF r.raised = NoRaise THEN r
       ELSE IF ~default.given THEN r
       ELSE ReSub(default.text, props, FALSE, Rescans)

\* ---- the <property> elements and properties files a project file may hold

PropertyNames == {"a", "b", "os"}

ValueParts ==
    { <<Lit("v")>>,
      <<Lit("prefix-"), Ref("a")>>,
      <<Ref("a"), Lit("-suffix")>>,
      <<Ref("a"), Lit(" "), Ref("b")>>,
      <<Esc, Lit("{"), Lit("a"), Lit("}")>>,
      <<Ref("env.USER")>>,
      <<Ref("env.UNSET")>>,
      <<>> }

DefaultParts == { <<>>, <<Lit("default value")>>, <<Ref("b")>>, <<Esc, Ref("os")>> }

\* The default= attribute of the elements: absent, or written from parts.
Defaults == [given : {TRUE}, parts : DefaultParts] \cup {[given |-> FALSE, parts |-> <<>>]}

\* default.getAttribute("default") if default.hasAttribute("default") else None
DefaultAttribute(d) == IF d.given THEN Default(Text(d.parts)) ELSE NoDefault

\* The entries of the properties files, in the order of the file.
PropertiesFiles ==
    [f \in {"one.properties"} |->
        << <<"a", <<Lit("from file")>> >>,
           <<"c", <<Ref("undefined"), Lit("-suffix")>> >>,
           <<"d", <<Ref("a"), Lit("+"), Esc>> >> >>]

FileNames == {"one.properties", "missing.properties"}

\* What is recorded of the last operation: its arguments, the names of the
\* properties defined before it, the exception it raised and what it returned.
NoCall == [op |-> "none", name |-> "", value |-> <<>>,
           default |-> [given |-> FALSE, parts |-> <<>>],
           argNone |-> FALSE, known |-> {}, raised |-> NoRaise, result |-> <<>>,
           resultNone |-> FALSE]

Call(op, name, value, default, raised, res) ==
    [NoCall EXCEPT !.op = op, !.name = name, !.value = value, !.default = default,
                   !.known = DOMAIN properties, !.raised = raised, !.result = res]

\* The instance attributes Project.__init__ has set before it reads the
\* properties.
EarlyAttributes == [n \in {"root"} |-> <<"/proj">>]

ProjectIn(phase) ==
    /\ xPhase = phase
    /\ properties = BuiltinProperties
    /\ propertiesReadOnly = FALSE
    /\ attributes = EarlyAttributes
    /\ frozen = FALSE
    /\ elementsRead = 0
    /\ xLast = NoCall

\* Project.__init__ up to parser.getProperties()
InitProject == ProjectIn("parsing")

\* No project is being loaded.
NoProject == ProjectIn("none")

\* A variant of AlreadySet that finds no property set.
AlreadySet_Never(name, props) == FALSE

\* if name in self.properties
AlreadySet(name, props) == name \in DOMAIN props

\* getProperties, one turn of its loop: <property name=... value=...
\* [default=...]/>
GetPropertyName(name, parts, default) ==
    /\ xPhase = "parsing"
    /\ elementsRead < MaxElements
    /\ elementsRead' = elementsRead + 1
    /\ LET r == ExpandProperties(Text(parts), DefaultAttribute(default), properties)
           raised == IF r.raised # NoRaise THEN r.raised
                     ELSE IF AlreadySet(name, properties) THEN "UserError"
                     ELSE NoRaise
       IN /\ xLast' = Call("name", name, parts, default, raised, r.text)
          /\ IF raised # NoRaise
             THEN /\ xPhase' = "UserError"
                  /\ UNCHANGED properties
             ELSE /\ properties' = SetItem(properties, name, r.text)
                  /\ UNCHANGED xPhase
    /\ UNCHANGED <<propertiesReadOnly, attributes, frozen>>
    /\ UNCHANGED <<procVars, writerVars, collectVars, findVars, startVars, xmlVars>>

\* getProperties, one turn of its loop: <property root=.../>
GetPropertyRoot(propname) ==
    /\ xPhase = "parsing"
    /\ elementsRead < MaxElements
    /\ elementsRead' = elementsRead + 1
    /\ properties' = SetItem(properties, propname, <<"/proj">>)
    /\ xLast' = Call("root", propname, <<>>, NoCall.default, NoRaise, <<"/proj">>)
    /\ UNCHANGED <<xPhase, propertiesReadOnly, attributes, frozen>>
    /\ UNCHANGED <<procVars, writerVars, collectVars, findVars, startVars, xmlVars>>

\* The loop of getPropertiesFromFile over the entries of the file.
RECURSIVE LoadEntries(_, _)
LoadEntries(entries, props) ==
    IF entries = <<>> THEN props
    ELSE LET name == Head(entries)[1]
             r == ExpandProperties(Text(Head(entries)[2]), Default(<<>>), props)
         IN LoadEntries(Tail(entries), SetItem(props, name, r.text))

\* getProperties, one turn of its loop: <property file=...
\* [pathMustExist=...]/>, with getPropertiesFromFile.
GetPropertyFile(file, pathMustExist) ==
    /\ xPhase = "parsing"
    /\ elementsRead < MaxElements
    /\ elementsRead' = elementsRead + 1
    /\ IF file \notin DOMAIN PropertiesFiles
       THEN /\ xPhase' = IF pathMustExist THEN "UserError" ELSE xPhase
            /\ xLast' = Call("file", file, <<>>, NoCall.default,
                             IF pathMustExist THEN "UserError" ELSE NoRaise, <<>>)
            /\ UNCHANGED properties
       ELSE /\ properties' = LoadEntries(PropertiesFiles[file], properties)
            /\ xLast' = Call("file", file, <<>>, NoCall.default, NoRaise, <<>>)
            /\ UNCHANGED xPhase
    /\ UNCHANGED <<propertiesReadOnly, attributes, frozen>>
    /\ UNCHANGED <<procVars, writerVars, collectVars, findVars, startVars, xmlVars>>

\* object.__setattr__ on a Project: __frozen and properties are attributes
\* like the others.
ObjectSetAttr(obj, name, value) ==
    IF name = "_Project__frozen"
    THEN [obj EXCEPT !.raised = NoRaise, !.frozen = value]
    ELSE IF name = "properties"
    THEN [obj EXCEPT !.raised = NoRaise, !.properties = value]
    ELSE [obj EXCEPT !.raised = NoRaise,
                     !.attributes = SetItem(obj.attributes, name, value)]

\* A variant of SetAttr that does not look at __frozen.
SetAttr_Unfrozen(obj, name, value) ==
    ObjectSetAttr(obj, name, value)

\* Project.__setattr__
SetAttr(obj, name, value) ==
    IF obj.frozen
    THEN [obj EXCEPT !.raised = "Exception"]
    ELSE ObjectSetAttr(obj, name, value)

\* The Project as an object: its attributes, with what the last assignment
\* raised.
Self ==
    [attributes |-> attributes, properties |-> properties, frozen |-> frozen,
     raised |-> NoRaise]

\* for key in keys: if not hasattr(self, key): setattr(self, key,
\* properties[key])
RECURSIVE SetAttributes(_, _, _)
SetAttributes(obj, keys, props) ==
    IF keys = {} THEN obj
    ELSE LET key == CHOOSE k \in keys : TRUE
             next == IF key \in DOMAIN obj.attributes THEN obj
                     ELSE SetAttr(obj, key, props[key])
         IN SetAttributes(next, keys \ {key}, props)

\* Project.__init__ from the return of parser.getProperties() to its end.
ProjectInitEnd ==
    /\ xPhase = "parsing"
    /\ LET withAttributes == SetAttributes(Self, DOMAIN properties, properties)
           withProperties == SetAttr(withAttributes, "properties", properties)
           atEnd == SetAttr(withProperties, "_Project__frozen", TRUE)
       IN /\ attributes' = atEnd.attributes
          /\ properties' = atEnd.properties
          /\ frozen' = atEnd.frozen
    /\ propertiesReadOnly' = TRUE
    /\ xPhase' = "loaded"
    /\ xLast' = Call("init", "", <<>>, NoCall.default, NoRaise, <<>>)
    /\ UNCHANGED elementsRead
    /\ UNCHANGED <<procVars, writerVars, collectVars, findVars, startVars, xmlVars>>

\* The assignments a caller may try on a loaded project.
Assignments ==
    { <<"a", <<"changed">> >>,
      <<"testRootDir", <<"changed">> >>,
      <<"newAttribute", <<"x">> >>,
      <<"properties", [n \in {"a"} |-> <<"changed">>] >>,
      <<"_Project__frozen", FALSE>> }

\* project.<name> = value
ProjectSetAttr(name, value) ==
    /\ xPhase = "loaded"
    /\ LET r == SetAttr(Self, name, value)
       IN /\ attributes' = r.attributes
          /\ properties' = r.properties
          /\ frozen' = r.frozen
          /\ xLast' = Call("setattr", name, <<>>, NoCall.default, r.raised, <<>>)
    /\ UNCHANGED <<xPhase, propertiesReadOnly, elementsRead>>
    /\ UNCHANGED <<procVars, writerVars, collectVars, findVars, startVars, xmlVars>>

\* The item assignment of the mapping makeReadOnlyDict returns.
ReadOnlyDictSetItem(d, readOnly, name, value) ==
    IF readOnly THEN [raised |-> "TypeError", items |-> d]
    ELSE [raised |-> NoRaise, items |-> SetItem(d, name, value)]

\* project.properties[name] = value
ProjectPropertiesSetItem(name, value) ==
    /\ xPhase = "loaded"
    /\ LET r == ReadOnlyDictSetItem(properties, propertiesReadOnly, name, value)
       IN /\ properties' = r.items
          /\ xLast' = Call("setitem", name, <<>>, NoCall.default, r.raised, <<>>)
    /\ UNCHANGED <<xPhase, propertiesReadOnly, attributes, frozen, elementsRead>>
    /\ UNCHANGED <<procVars, writerVars, collectVars, findVars, startVars, xmlVars>>

\* An argument of Project.expandProperties: None, or a string.
None == [none |-> TRUE, text |-> <<>>]
String(text) == [none |-> FALSE, text |-> text]

\* Project.expandProperties
ProjectExpandProperties(value, props) ==
    IF value.none \/ value.text = <<>>
    THEN [raised |-> NoRaise, none |-> value.none, text |-> value.text]
    ELSE LET r == ReSub(value.text, props, TRUE, Rescans)
         IN [raised |-> r.raised, none |-> FALSE, text |-> r.text]

\* project.expandProperties(value)
CallExpandProperties(none, parts) ==
    /\ xPhase = "loaded"
    /\ LET r == ProjectExpandProperties(IF none THEN None ELSE String(Text(parts)),
                                        properties)
       IN xLast' = [NoCall EXCEPT !.op = "expand", !.value = parts, !.argNone = none,
                                  !.known = DOMAIN properties,
                                  !.raised = r.raised, !.result = r.text,
                                  !.resultNone = r.none]
    /\ UNCHANGED <<xPhase, properties, propertiesReadOnly, attributes, frozen,
                   elementsRead>>
    /\ UNCHANGED <<procVars, writerVars, collectVars, findVars, startVars, xmlVars>>

(***************************************************************************)
(* Project.findAndLoadProject (pysys/xml/project.py).                      *)
(*                                                                         *)
(* A path is a sequence of pieces: a drive "C:", the separator "/" and     *)
(* names.  A directory is the sequence of the names that lead to it from   *)
(* the root.                                                               *)
(***************************************************************************)

\* os.getcwd()
Cwd == <<"/", "a", "/", "b">>

\* The start paths: None, the root, directories below it without and with a
\* trailing separator, a path relative to the current directory, and paths
\* with a drive.
StartDirs ==
    { <<>>,
      <<"/">>,
      <<"/", "a">>,
      <<"/", "a", "/", "b", "/", "c">>,
      <<"/", "a", "/", "b", "/", "c", "/">>,
      <<"c">>,
      <<"C:", "/", "a", "/", "b">>,
      <<"C:", "/">> }

\* The directories that may hold a default project file.
Directories == {<<>>, <<"a">>, <<"a", "b">>, <<"a", "b", "c">>}

DefaultProjectFile == "pysysproject.xml"

\* os.path.splitdrive
SplitDrive(path) ==
    IF path # <<>> /\ path[1] = "C:"
    THEN [drive |-> <<"C:">>, path |-> Tail(path)]
    ELSE [drive |-> <<>>, path |-> path]

\* head.rstrip('/')
RECURSIVE RStrip(_)
RStrip(p) ==
    IF p # <<>> /\ p[Len(p)] = "/" THEN RStrip(SubSeq(p, 1, Len(p) - 1)) ELSE p

\* os.path.split: the head is all up to the last separator, without its
\* trailing separators unless it is separators only; the tail is the rest.
Split(path) ==
    LET d == SplitDrive(path)
        seps == {k \in 1..Len(d.path) : d.path[k] = "/"}
        i == IF seps = {} THEN 0 ELSE CHOOSE k \in seps : \A j \in seps : j <= k
        head == SubSeq(d.path, 1, i)
    IN [head |-> d.drive \o (IF RStrip(head) = <<>> THEN head ELSE RStrip(head)),
        tail |-> SubSeq(d.path, i + 1, Len(d.path))]

IsName(piece) == piece \notin {"/", "C:"}

\* The directory a path leads to: a path that does not begin with a separator
\* is relative to the current directory.
DirOf(path) ==
    LET q == SplitDrive(path).path
    IN IF q # <<>> /\ q[1] = "/" THEN SelectSeq(q, IsName)
       ELSE SelectSeq(Cwd, IsName) \o SelectSeq(q, IsName)

\* set(DEFAULT_PROJECTFILE) & set(os.listdir(search))
Intersection(path, dirs) ==
    IF DirOf(path) \in dirs THEN {DefaultProjectFile} ELSE {}

FinderIn(phase, start, env, permit, dirs) ==
    /\ fPhase = phase
    /\ startdir = start
    /\ envProjectFile = env
    /\ permitNoProjectFile = permit
    /\ projectDirs = dirs
    /\ search = <<>>
    /\ drive = <<>>
    /\ projectFile = "None"
    /\ listed = <<>>

\* A call of findAndLoadProject is about to begin.
InitFind ==
    \E start \in StartDirs, env \in {"None", "other.xml"}, permit \in BOOLEAN,
       dirs \in SUBSET Directories :
        FinderIn("new", start, env, permit, dirs)

\* findAndLoadProject is not called.
NoFind == FinderIn("none", <<>>, "None", FALSE, {})

\* Project(search, projectFile, outdir=outdir) in its try statement
LoadProject(loads) == IF loads THEN "loaded" ELSE "loadFailed"

\* findAndLoadProject up to the loop
FindBegin(loads) ==
    /\ fPhase = "new"
    /\ projectFile' = envProjectFile
    /\ search' = IF startdir # <<>> THEN startdir ELSE Cwd
    /\ IF envProjectFile = "None"
       THEN /\ drive' = SplitDrive(search').drive
            /\ fPhase' = "walking"
       ELSE /\ fPhase' = LoadProject(loads)
            /\ UNCHANGED drive
    /\ UNCHANGED <<startdir, envProjectFile, permitNoProjectFile, projectDirs, listed>>
    /\ UNCHANGED <<procVars, writerVars, collectVars, projectVars, startVars, xmlVars>>

\* One turn of the loop
FindWalk ==
    /\ fPhase = "walking"
    /\ projectFile = "None"
    /\ search # drive
    /\ listed' = Append(listed, DirOf(search))
    /\ LET intersection == Intersection(search, projectDirs)
       IN IF intersection # {}
          THEN /\ projectFile' = CHOOSE f \in intersection : TRUE
               /\ UNCHANGED search
          ELSE /\ search' = IF Split(search).tail = <<>> THEN drive
                            ELSE Split(search).head
               /\ UNCHANGED projectFile
    /\ UNCHANGED <<fPhase, startdir, envProjectFile, permitNoProjectFile, projectDirs,
                   drive>>
    /\ UNCHANGED <<procVars, writerVars, collectVars, projectVars, startVars, xmlVars>>

\* findAndLoadProject after the loop
FindEnd(loads) ==
    /\ fPhase = "walking"
    /\ projectFile # "None" \/ search = drive
    /\ IF ~(projectFile # "None" /\ DirOf(search) \in projectDirs)
          /\ ~permitNoProjectFile
       THEN fPhase' = "exit1"
       ELSE fPhase' = LoadProject(loads)
    /\ UNCHANGED <<startdir, envProjectFile, permitNoProjectFile, projectDirs, search,
                   drive, projectFile, listed>>
    /\ UNCHANGED <<procVars, writerVars, collectVars, projectVars, startVars, xmlVars>>

(***************************************************************************)
(* Properties of the project configuration                                 *)
(***************************************************************************)

\* C14: once the constructor of a Project has completed, no operation changes
\* its attributes, its __frozen flag or its properties, and every attribute
\* assignment and every item assignment on the properties mapping raises.
C14_LoadedProjectIsImmutable ==
    [][xPhase = "loaded" =>
          /\ attributes' = attributes
          /\ properties' = properties
          /\ frozen' = frozen
          /\ propertiesReadOnly' = propertiesReadOnly
          /\ xLast'.op \in {"setattr", "setitem"} => xLast'.raised # NoRaise]_vars

\* An assignment to the attribute of a property of a loaded project has raised.
C14_Witness ==
    /\ xPhase = "loaded"
    /\ xLast.op = "setattr"
    /\ xLast.name = "a"
    /\ xLast.raised = "Exception"
    /\ "a" \in DOMAIN properties
    /\ attributes["a"] = properties["a"]

\* The parts are literal text only.
IsLiteral(parts) == \A i \in 1..Len(parts) : parts[i][1] = "lit"

\* The last entry of the properties file for each name it defines.
LastEntries(entries) ==
    {i \in 1..Len(entries) : \A j \in (i + 1)..Len(entries) : entries[j][1] # entries[i][1]}

\* C15: a <property name=... value=...> element whose name is already defined
\* raises UserError and leaves every property as it was; reading a properties
\* file raises nothing and gives each name of the file the value the file
\* has for it, whether or not the name was defined.
C15_DuplicateNameRaisesFileOverwrites ==
    [][elementsRead' = elementsRead + 1 =>
          /\ (xLast'.op = "name" /\ xLast'.name \in DOMAIN properties) =>
                /\ xLast'.raised = "UserError"
                /\ xPhase' = "UserError"
                /\ properties' = properties
          /\ (xLast'.op = "file" /\ xLast'.name \in DOMAIN PropertiesFiles) =>
                /\ xLast'.raised = NoRaise
                /\ xPhase' = "parsing"
                /\ LET entries == PropertiesFiles[xLast'.name]
                   IN \A i \in LastEntries(entries) :
                         /\ entries[i][1] \in DOMAIN properties'
                         /\ IsLiteral(entries[i][2]) =>
                               properties'[entries[i][1]] = Text(entries[i][2])]_vars

\* An element has named a property that an earlier element or a properties
\* file had defined, with a value that expands, and UserError was raised.
C15_Witness ==
    /\ xPhase = "UserError"
    /\ xLast.op = "name"
    /\ xLast.name \in xLast.known \ DOMAIN BuiltinProperties
    /\ IsLiteral(xLast.value)
    /\ xLast.raised = "UserError"

\* What a part refers to is defined: a project property, or an environment
\* variable.
IsDefined(part, props) ==
    \/ part[1] \in {"lit", "esc"}
    \/ /\ part[1] = "ref"
       /\ \/ part[2] \in DOMAIN EnvNames /\ EnvNames[part[2]] \in DOMAIN Environ
          \/ part[2] \notin DOMAIN EnvNames /\ part[2] \in DOMAIN props

AllDefined(parts, props) == \A i \in 1..Len(parts) : IsDefined(parts[i], props)

\* The literal text of the parts joined with the values they refer to.
RECURSIVE Concatenation(_, _)
Concatenation(parts, props) ==
    IF parts = <<>> THEN <<>>
    ELSE LET p == Head(parts)
             v == CASE p[1] = "lit" -> <<p[2]>>
                    [] p[1] = "esc" -> <<"$">>
                    [] p[1] = "ref" -> IF p[2] \in DOMAIN EnvNames
                                       THEN Environ[EnvNames[p[2]]]
                                       ELSE props[p[2]]
         IN v \o Concatenation(Tail(parts), props)

\* The value a <property name=...> element gives a name that is not defined
\* yet: the concatenation if all references of the value are defined, else
\* the expanded default if there is one and its references are defined, else
\* UserError, with no property changed.
ElementRule(call, before, after, phase) ==
    LET value == call.value
        default == call.default
    IN IF AllDefined(value, before)
       THEN /\ call.raised = NoRaise
            /\ after = SetItem(before, call.name, Concatenation(value, before))
       ELSE IF default.given /\ AllDefined(default.parts, before)
       THEN /\ call.raised = NoRaise
            /\ after = SetItem(before, call.name, Concatenation(default.parts, before))
            /\ default.parts = <<>> => after[call.name] = <<>>
       ELSE /\ call.raised = "UserError"
            /\ phase = "UserError"
            /\ after = before

\* An entry of the properties file read last refers to something that is not
\* defined when the entry is read.
RECURSIVE HasUndefined(_, _)
HasUndefined(entries, props) ==
    /\ entries # <<>>
    /\ \/ ~AllDefined(Head(entries)[2], props)
       \/ HasUndefined(Tail(entries),
                       SetItem(props, Head(entries)[1], <<"any">>))

\* C16 as stated: every property whose value refers to something undefined
\* takes its expanded default attribute or fails loading with UserError, be
\* it set by a <property name=...> element or by an entry of a properties
\* file, which has no default attribute.
C16_UndefinedReferenceDefaultOrUserError ==
    [][elementsRead' = elementsRead + 1 =>
          /\ (xLast'.op = "name" /\ xLast'.name \notin DOMAIN properties) =>
                ElementRule(xLast', properties, properties', xPhase')
          /\ (/\ xLast'.op = "file"
              /\ xLast'.name \in DOMAIN PropertiesFiles
              /\ HasUndefined(PropertiesFiles[xLast'.name], properties)) =>
                xLast'.raised = "UserError"]_vars

\* The value an entry of a properties file gives its name: the concatenation
\* if all its references are defined, else the empty string.
RECURSIVE FileRule(_, _)
FileRule(entries, props) ==
    IF entries = <<>> THEN props
    ELSE LET e == Head(entries)
             v == IF AllDefined(e[2], props) THEN Concatenation(e[2], props) ELSE <<>>
         IN FileRule(Tail(entries), SetItem(props, e[1], v))

\* C16, amended: the rule of the default attribute and UserError holds for
\* the <property name=...> elements; an entry of a properties file whose
\* value refers to something undefined becomes the empty string and raises
\* nothing.
C16_ElementsDefaultOrUserErrorFilesEmpty ==
    [][elementsRead' = elementsRead + 1 =>
          /\ (xLast'.op = "name" /\ xLast'.name \notin DOMAIN properties) =>
                ElementRule(xLast', properties, properties', xPhase')
          /\ (xLast'.op = "file" /\ xLast'.name \in DOMAIN PropertiesFiles) =>
                /\ xLast'.raised = NoRaise
                /\ properties' = FileRule(PropertiesFiles[xLast'.name], properties)]_vars

\* An element whose value refers to a property that is not defined has taken
\* its default, which refers to a property that is.
C16_Witness ==
    /\ xPhase = "parsing"
    /\ xLast.op = "name"
    /\ xLast.name \notin xLast.known
    /\ xLast.raised = NoRaise
    /\ \E i \in 1..Len(xLast.value) :
          xLast.value[i][1] = "ref" /\ xLast.value[i][2] \in {"a", "b"} \ xLast.known
    /\ xLast.default.given
    /\ \E i \in 1..Len(xLast.default.parts) : xLast.default.parts[i][1] = "ref"
    /\ properties[xLast.name] = xLast.result
    /\ xLast.result # <<>>

\* Every reference of the parts is to a project property.
AllProperties(parts, props) ==
    \A i \in 1..Len(parts) : parts[i][1] = "ref" => parts[i][2] \in DOMAIN props

\* The parts from left to right: literal text as it is, '$' for the escape
\* and the value of the property, as it is, for a reference.
RECURSIVE Verbatim(_, _)
Verbatim(parts, props) ==
    IF parts = <<>> THEN <<>>
    ELSE LET p == Head(parts)
         IN (IF p[1] = "ref" THEN props[p[2]]
             ELSE IF p[1] = "esc" THEN <<"$">>
             ELSE <<p[2]>>) \o Verbatim(Tail(parts), props)

\* C17: Project.expandProperties returns None and the empty string as they
\* are; otherwise it raises if a referenced property is missing and else
\* returns the text with '$' for ${$} and each property's value, unscanned,
\* for ${name}.  The expansion of a <property name=...> value whose references
\* are all properties does the same, so '${$}{a}' becomes the text '${a}'.
C17_ExpansionIsOnePassWithoutRescan ==
    [][/\ xLast'.op = "expand" =>
             IF xLast'.argNone
             THEN xLast'.resultNone /\ xLast'.raised = NoRaise
             ELSE /\ ~xLast'.resultNone
                  /\ IF AllProperties(xLast'.value, properties)
                     THEN /\ xLast'.raised = NoRaise
                          /\ xLast'.result = Verbatim(xLast'.value, properties)
                     ELSE xLast'.raised # NoRaise
       /\ (/\ elementsRead' = elementsRead + 1
           /\ xLast'.op = "name"
           /\ AllProperties(xLast'.value, properties)) =>
             xLast'.result = Verbatim(xLast'.value, properties)]_vars

\* A loaded project has expanded a reference to a property whose value holds
\* the text '${a}', while a is a property with another value.
C17_Witness ==
    /\ xPhase = "loaded"
    /\ xLast.op = "expand"
    /\ xLast.raised = NoRaise
    /\ "a" \in DOMAIN properties
    /\ properties["a"] # <<"$", "{", "a", "}">>
    /\ "b" \in DOMAIN properties
    /\ properties["b"] = <<"$", "{", "a", "}">>
    /\ \E i \in 1..Len(xLast.value) : xLast.value[i] = Ref("b")
    /\ \E i \in 1..(Len(xLast.result) - 3) :
          SubSeq(xLast.result, i, i + 3) = <<"$", "{", "a", "}">>

(***************************************************************************)
(* Properties of Project.findAndLoadProject                                *)
(***************************************************************************)

\* The directory the search starts in.
StartDirectory == DirOf(IF startdir # <<>> THEN startdir ELSE Cwd)

\* A directory and its ancestors.
SelfAndAncestors(dir) == {SubSeq(dir, 1, k) : k \in 0..Len(dir)}

\* The directories from dir up to its ancestor top, nearest first.
Upward(dir, top) == [k \in 1..(Len(dir) - Len(top) + 1) |-> SubSeq(dir, 1, Len(dir) - k + 1)]

\* C18: with PYSYS_PROJECTFILE unset, when findAndLoadProject has ended it
\* has listed the start directory and its ancestors, nearest first, up to the
\* first that holds a default project file, which is the project root; if
\* none holds one it has listed them all up to the root and has exited with
\* status 1 unless PYSYS_PERMIT_NO_PROJECTFILE is true.
C18_NearestAncestorBecomesRoot ==
    (envProjectFile = "None" /\ fPhase \in {"loaded", "loadFailed", "exit1"}) =>
        LET holders == SelfAndAncestors(StartDirectory) \cap projectDirs
        IN IF holders # {}
           THEN LET nearest == CHOOSE d \in holders : \A e \in holders : Len(e) <= Len(d)
                IN /\ fPhase # "exit1"
                   /\ projectFile = DefaultProjectFile
                   /\ DirOf(search) = nearest
                   /\ listed = Upward(StartDirectory, nearest)
           ELSE /\ projectFile = "None"
                /\ listed = Upward(StartDirectory, <<>>)
                /\ fPhase = "exit1" <=> ~permitNoProjectFile

(***************************************************************************)
(* Properties of startBackgroundProcess                                    *)
(***************************************************************************)

\* C19: when startBackgroundProcess has returned or raised, each of the read
\* end of the stdin pipe and the stdout and stderr file handles that was
\* opened has been closed exactly once; after ProcessError pid, exitStatus
\* and the process and thread handles are unset; and a command line of
\* MaxCommandLine characters or more has raised ValueError with no process
\* created.
C19_HandlesClosedOnceOnEveryPath ==
    sPc \in {"returned", "raised"} =>
        /\ \A h \in {"hStdin_r", "hStdout", "hStderr"} :
              handles[h].opened => handles[h].closes = 1 /\ ~handles[h].open
        /\ startState = "ProcessError" =>
              /\ pid = "None"
              /\ exitStatus = "None"
              /\ hProcess = "None"
              /\ hThread = "None"
        /\ commandLineLength >= MaxCommandLine =>
              startState = "ValueError" /\ osProc = "none"

(***************************************************************************)
(* Properties of XMLResultsWriter                                          *)
(***************************************************************************)

\* C20: after setup and after every processResult and cleanup the log file
\* is the serialization of the document, whose status is "running" until
\* cleanup and "complete" after it and whose completed attribute is the
\* number of processResult calls, a slash and numTests; and no serialization
\* written is shorter than one written before it.
C20_LogFileIsCurrentDocument ==
    xmlPhase \in {"open", "closed"} =>
        /\ logFile = SerializeXMLDocumentToBytes(document)
        /\ document.status = IF xmlPhase = "open" THEN Running ELSE Complete
        /\ document.completed = Digits(processed) \o <<"/">> \o Digits(numTests)
        /\ \A i, j \in 1..Len(lengths) : i < j => lengths[i] <= lengths[j]

\* A run over both cycles with at least ten results has been cleaned up.
C20_Witness ==
    /\ xmlPhase = "closed"
    /\ processed >= 10
    /\ Len(document.nodes) = 2
    /\ Len(lengths) = processed + 2
    /\ lengths[Len(lengths)] = lengths[Len(lengths) - 1] + 1

(***************************************************************************)
(* The specifications                                                      *)
(***************************************************************************)
\* The process wrapper alone.
InitProcessAlone ==
    /\ InitProcess
    /\ NoArchiveWriter
    /\ NoJSONWriter
    /\ result = NoResult
    /\ NoCollectWriter
    /\ NoProject
    /\ NoFind
    /\ NoStart
    /\ NoXmlWriter

SpecProcess == InitProcessAlone /\ [][NextProcess]_vars

\* A test run of a project that configures one of the two writers.
InitWriters ==
    /\ NewProcess(FALSE, FALSE, FALSE)
    /\ result = NoResult
    /\ \/ InitArchive /\ NoJSONWriter
       \/ NoArchiveWriter /\ InitJSON
    /\ NoCollectWriter
    /\ NoProject
    /\ NoFind
    /\ NoStart
    /\ NoXmlWriter

NextWriters ==
    \/ ArchSetup
    \/ \E id \in 1..MaxTests, o \in Outcomes : ArchProcessResult(id, o)
    \/ ArchCleanupBegin
    \/ ArchCleanupArchive
    \/ ArchCleanupFinish
    \/ JsonSetup
    \/ \E id \in 1..MaxTests, o \in Outcomes : JsonProcessResult(id, o)
    \/ JsonCleanup

SpecWriters == InitWriters /\ [][NextWriters]_vars

\* The setup of a TestOutputArchiveWriter, whatever an earlier run left in
\* destDir.
InitArchiveSetup ==
    /\ NewProcess(FALSE, FALSE, FALSE)
    /\ \E cfg \in ArchiveConfigs, dir \in OldDirs : ArchiveWriterIn(cfg, "new", dir)
    /\ NoJSONWriter
    /\ result = NoResult
    /\ NoCollectWriter
    /\ NoProject
    /\ NoFind
    /\ NoStart
    /\ NoXmlWriter

NextArchiveSetup ==
    \/ ArchSetup

SpecArchiveSetup == InitArchiveSetup /\ [][NextArchiveSetup]_vars

\* A test run of a project that configures a CollectTestOutputWriter.
InitCollectAlone ==
    /\ NewProcess(FALSE, FALSE, FALSE)
    /\ NoArchiveWriter
    /\ NoJSONWriter
    /\ result = NoResult
    /\ InitCollect
    /\ NoProject
    /\ NoFind
    /\ NoStart
    /\ NoXmlWriter

NextCollect ==
    \/ CollectSetup
    \/ \E t \in CollectTests, name \in CollectNames : CollectPath(t, name)

SpecCollect == InitCollectAlone /\ [][NextCollect]_vars

\* The loading of a project file, and the use of the loaded project.
InitProjectAlone ==
    /\ NewProcess(FALSE, FALSE, FALSE)
    /\ NoArchiveWriter
    /\ NoJSONWriter
    /\ result = NoResult
    /\ NoCollectWriter
    /\ InitProject
    /\ NoFind
    /\ NoStart
    /\ NoXmlWriter

NextProject ==
    \/ \E name \in PropertyNames, parts \in ValueParts, default \in Defaults :
          GetPropertyName(name, parts, default)
    \/ \E propname \in PropertyNames : GetPropertyRoot(propname)
    \/ \E file \in FileNames, pathMustExist \in BOOLEAN :
          GetPropertyFile(file, pathMustExist)
    \/ ProjectInitEnd
    \/ \E a \in Assignments : ProjectSetAttr(a[1], a[2])
    \/ \E name \in PropertyNames : ProjectPropertiesSetItem(name, <<"changed">>)
    \/ \E none \in BOOLEAN, parts \in ValueParts : CallExpandProperties(none, parts)

SpecProject == InitProjectAlone /\ [][NextProject]_vars

\* A call of Project.findAndLoadProject.
InitFindAlone ==
    /\ NewProcess(FALSE, FALSE, FALSE)
    /\ NoArchiveWriter
    /\ NoJSONWriter
    /\ result = NoResult
    /\ NoCollectWriter
    /\ NoProject
    /\ InitFind
    /\ NoStart
    /\ NoXmlWriter

NextFind ==
    \/ \E loads \in BOOLEAN : FindBegin(loads)
    \/ FindWalk
    \/ \E loads \in BOOLEAN : FindEnd(loads)

SpecFind == InitFindAlone /\ [][NextFind]_vars

\* One call of startBackgroundProcess on a new ProcessImpl.
InitStartAlone ==
    /\ InitProcess
    /\ NoArchiveWriter
    /\ NoJSONWriter
    /\ result = NoResult
    /\ NoCollectWriter
    /\ NoProject
    /\ NoFind
    /\ InitStart
    /\ NoXmlWriter

NextStart ==
    \/ SbpLock
    \/ SbpCreatePipe
    \/ \E h \in {"hStdout", "hStderr"}, created \in BOOLEAN : SbpCreateFile(h, created)
    \/ SbpDuplicateHandle
    \/ \E length \in CommandLineLengths : SbpBuildCommandLine(length)
    \/ SbpCreateParentJob
    \/ \E created \in BOOLEAN : SbpCreateProcess(created)
    \/ \E assigned \in BOOLEAN : SbpAssignAndResume(assigned)
    \/ SbpFinally
    \/ SbpSetStdin

SpecStart == InitStartAlone /\ [][NextStart]_vars

\* A test run of a project that configures an XMLResultsWriter.
InitXmlAlone ==
    /\ NewProcess(FALSE, FALSE, FALSE)
    /\ NoArchiveWriter
    /\ NoJSONWriter
    /\ result = NoResult
    /\ NoCollectWriter
    /\ NoProject
    /\ NoFind
    /\ NoStart
    /\ InitXml

NextXml ==
    \/ \E tests \in NumTestsChoices : XmlSetup(tests)
    \/ \E c \in Cycles, outcome \in XmlOutcomes : XmlProcessResult(c, outcome)
    \/ XmlCleanup

SpecXml == InitXmlAlone /\ [][NextXml]_vars

====
